---------------------------- MODULE Spec2Model ----------------------------
(***************************************************************************)
(* Model of the card cropping pipeline of backend/utils/image_processor.py *)
(* (class CardCropper).                                                    *)
(*                                                                         *)
(* Pixel contents are not modelled.  What the OpenCV / numpy / PIL calls   *)
(* compute from the pixels (strip statistics, the contour list, colour     *)
(* counts) is drawn with \E inside the step that makes the call; what the  *)
(* Python code itself computes from those values (filters, scores, boxes,  *)
(* margins, slices, the result dictionaries) is modelled exactly.          *)
(*                                                                         *)
(* Floats are modelled as exact rationals [n |-> .., d |-> ..], d > 0.     *)
(* Rounding of IEEE doubles is below the resolution of the model.          *)
(***************************************************************************)
EXTENDS Integers, Sequences, FiniteSets, TLC

(***************************************************************************)
(* Bounds of the model.                                                    *)
(***************************************************************************)
\* contours returned by cv2.findContours for one image: 0..MaxContours
MaxContours == 2
\* large images are 50k x 70k and 70k x 50k pixels, k in 1..MaxScale
MaxScale == 2
\* vertex counts given to the scorer: 3..MaxVertices
MaxVertices == 13
\* boxes given directly to _extract_card_bbox: coordinates 25k for k in
\* -1..MaxCoord, sizes 25k for k in 0..MaxCoord, images up to 25*MaxCoord
MaxCoord == 4
\* red and blue pixel counts of a label strip: 0..MaxCount
MaxCount == 1

(***************************************************************************)
(* Exact rationals.                                                        *)
(***************************************************************************)
RECURSIVE GCD(_, _)
GCD(a, b) == IF b = 0 THEN a ELSE GCD(b, a % b)

Abs(i) == IF i < 0 THEN -i ELSE i

\* n/d in lowest terms (n >= 0, d > 0)
Rat(n, d) == LET g == GCD(n, d) IN [n |-> n \div g, d |-> d \div g]

RLt(a, b) == a.n * b.d < b.n * a.d
RLe(a, b) == a.n * b.d <= b.n * a.d
REq(a, b) == a.n * b.d = b.n * a.d
RMax(a, b) == IF RLt(a, b) THEN b ELSE a
RMin(a, b) == IF RLt(b, a) THEN b ELSE a
RAdd(a, b) == Rat(a.n * b.d + b.n * a.d, a.d * b.d)
RMul(a, b) == Rat(a.n * b.n, a.d * b.d)
\* a decimal literal with two places: Pct(95) is 0.95
Pct(k) == Rat(k, 100)
RZero == Rat(0, 1)
ROne == Rat(1, 1)
InUnit(x) == RLe(RZero, x) /\ RLe(x, ROne)

\* Python int(k * p/100) for k >= 0: truncation
IntPct(k, p) == (k * p) \div 100

(***************************************************************************)
(* Class constants of CardCropper.                                         *)
(***************************************************************************)
CARD_ASPECT_RATIO == Rat(25, 35)
ASPECT_RATIO_TOLERANCE == Pct(30)
MIN_CARD_AREA_RATIO == Pct(1)
MAX_CARD_AREA_RATIO == Pct(100)
\* MARGIN_INSET_PERCENT = 0.02, in percent
MARGIN_INSET_PERCENT == 2

\* abs(aspect_ratio - self.CARD_ASPECT_RATIO)
AspectDiff(aspect_ratio) ==
  Rat(Abs(aspect_ratio.n * CARD_ASPECT_RATIO.d - CARD_ASPECT_RATIO.n * aspect_ratio.d),
      aspect_ratio.d * CARD_ASPECT_RATIO.d)

(***************************************************************************)
(* _calculate_confidence_advanced: the four sub-scores and their sum.      *)
(***************************************************************************)
AspectScore(aspect_ratio) ==
  LET aspect_diff == AspectDiff(aspect_ratio) IN
  IF RLt(aspect_diff, Pct(8)) THEN Pct(100)
  ELSE IF RLt(aspect_diff, Pct(15)) THEN Pct(95)
  ELSE IF RLt(aspect_diff, Pct(20)) THEN Pct(85)
  ELSE IF RLt(aspect_diff, ASPECT_RATIO_TOLERANCE) THEN Pct(75)
  ELSE Pct(50)

AreaScore_OpenTop(area_ratio) ==
  IF RLe(Pct(40), area_ratio) /\ RLe(area_ratio, Pct(70)) THEN Pct(100)
  ELSE IF RLt(Pct(70), area_ratio) /\ RLt(area_ratio, Pct(95)) THEN Pct(98)
  ELSE IF RLe(Pct(30), area_ratio) /\ RLt(area_ratio, Pct(40)) THEN Pct(95)
  ELSE IF RLe(Pct(15), area_ratio) /\ RLt(area_ratio, Pct(30)) THEN Pct(90)
  ELSE IF RLe(Pct(5), area_ratio) /\ RLt(area_ratio, Pct(15)) THEN Pct(85)
  ELSE Pct(75)

AreaScore(area_ratio) ==
  IF RLe(Pct(40), area_ratio) /\ RLe(area_ratio, Pct(70)) THEN Pct(100)
  ELSE IF RLt(Pct(70), area_ratio) /\ RLe(area_ratio, Pct(95)) THEN Pct(98)
  ELSE IF RLe(Pct(30), area_ratio) /\ RLt(area_ratio, Pct(40)) THEN Pct(95)
  ELSE IF RLe(Pct(15), area_ratio) /\ RLt(area_ratio, Pct(30)) THEN Pct(90)
  ELSE IF RLe(Pct(5), area_ratio) /\ RLt(area_ratio, Pct(15)) THEN Pct(85)
  ELSE Pct(75)

VertexScore(num_vertices) ==
  IF num_vertices = 4 THEN Pct(100)
  ELSE IF num_vertices = 5 THEN Pct(95)
  ELSE IF num_vertices = 6 THEN Pct(85)
  ELSE IF num_vertices = 7 THEN Pct(75)
  ELSE Pct(65)

SolidityScore(solidity) ==
  IF RLt(Pct(95), solidity) THEN Pct(100)
  ELSE IF RLt(Pct(90), solidity) THEN Pct(95)
  ELSE IF RLt(Pct(85), solidity) THEN Pct(90)
  ELSE RMax(Pct(70), solidity)

\* a weight slip: 0.50 + 0.30 + 0.20 + 0.10 = 1.10
WeightedSum_HeavyAspect(aspect_score, area_score, vertex_score, solidity_score) ==
  RAdd(RAdd(RMul(aspect_score, Pct(50)), RMul(area_score, Pct(30))),
       RAdd(RMul(vertex_score, Pct(20)), RMul(solidity_score, Pct(10))))

\* confidence = 0.0; confidence += score * weight (four times)
WeightedSum(aspect_score, area_score, vertex_score, solidity_score) ==
  RAdd(RAdd(RMul(aspect_score, Pct(40)), RMul(area_score, Pct(30))),
       RAdd(RMul(vertex_score, Pct(20)), RMul(solidity_score, Pct(10))))

\* The locals of one call of _calculate_confidence_advanced and its return
\* value (has_parent is accepted and never read).
ConfidenceFrame(area_ratio, aspect_ratio, num_vertices, solidity) ==
  LET a == AspectScore(aspect_ratio)
      r == AreaScore(area_ratio)
      v == VertexScore(num_vertices)
      s == SolidityScore(solidity)
      sum == WeightedSum(a, r, v, s)
  IN [aspect_score |-> a, area_score |-> r, vertex_score |-> v,
      solidity_score |-> s, confidence |-> sum,
      returned |-> RMin(ROne, sum)]

CalculateConfidenceAdvanced(area_ratio, aspect_ratio, num_vertices, solidity) ==
  ConfidenceFrame(area_ratio, aspect_ratio, num_vertices, solidity).returned

(***************************************************************************)
(* State.                                                                  *)
(*   pc .. result : one invocation of crop_card (the pipeline)             *)
(*   call, ret    : one direct call of a pure helper with drawn arguments  *)
(***************************************************************************)
VARIABLES pc, image_bytes, image, is_screenshot, combined, todo, candidates,
          card_bbox, confidence, apply_margin, cropped_card, exc, result,
          call, ret

vars == <<pc, image_bytes, image, is_screenshot, combined, todo, candidates,
          card_bbox, confidence, apply_margin, cropped_card, exc, result,
          call, ret>>

pipeVars == <<pc, image_bytes, image, is_screenshot, combined, todo, candidates,
              card_bbox, confidence, apply_margin, cropped_card, exc, result>>

None == [none |-> TRUE]
NoCall == [fn |-> "none"]

PipelineIdle ==
  /\ pc = "idle"
  /\ image_bytes = None
  /\ image = None
  /\ is_screenshot = FALSE
  /\ combined = None
  /\ todo = 0
  /\ candidates = <<>>
  /\ card_bbox = None
  /\ confidence = RZero
  /\ apply_margin = None
  /\ cropped_card = None
  /\ exc = None
  /\ result = None

(***************************************************************************)
(* The result dictionaries of crop_card.                                   *)
(***************************************************************************)
DecodeFailedResult ==
  [success |-> FALSE,
   message |-> "Failed to decode image",
   error |-> "Invalid image format"]

\* the no-card dictionary without its confidence entry
NoCardResult_NoConfidence(original_w, original_h) ==
  [success |-> FALSE,
   message |-> "No card detected in image. Please ensure the card is clearly visible.",
   original_size |-> <<original_w, original_h>>]

NoCardResult(original_w, original_h) ==
  [success |-> FALSE,
   message |-> "No card detected in image. Please ensure the card is clearly visible.",
   confidence |-> RZero,
   original_size |-> <<original_w, original_h>>]

ExtractFailedResult(conf, original_w, original_h) ==
  [success |-> FALSE,
   message |-> "Failed to extract card from image",
   confidence |-> conf,
   original_size |-> <<original_w, original_h>>]

\* cropped_size taken from the crop box, before the rotation
SuccessResult_BoxSize(cropped_base64, conf, original_w, original_h, crop) ==
  [success |-> TRUE,
   cropped_image |-> cropped_base64,
   confidence |-> conf,
   message |-> "Card successfully detected and cropped",
   original_size |-> <<original_w, original_h>>,
   cropped_size |-> <<crop.box[3] - crop.box[1], crop.box[4] - crop.box[2]>>]

\* cropped_h, cropped_w = cropped_card.shape[:2] and the success dictionary
SuccessResult(cropped_base64, conf, original_w, original_h, crop) ==
  [success |-> TRUE,
   cropped_image |-> cropped_base64,
   confidence |-> conf,
   message |-> "Card successfully detected and cropped",
   original_size |-> <<original_w, original_h>>,
   cropped_size |-> <<crop.w, crop.h>>]

(***************************************************************************)
(* crop_card: the inputs.                                                  *)
(*   empty   : b"" ; cv2.imdecode asserts !buf.empty() and raises          *)
(*   garbage : bytes that are no image; cv2.imdecode returns None          *)
(*   image   : an encoded image of w x h pixels                            *)
(***************************************************************************)
ImageSizes ==
  {<<1, 1>>, <<6, 20>>, <<20, 20>>}
    \cup {<<50 * k, 70 * k>> : k \in 1..MaxScale}
    \cup {<<70 * k, 50 * k>> : k \in 1..MaxScale}

Inputs ==
  {[kind |-> "empty"], [kind |-> "garbage"]}
    \cup {[kind |-> "image", w |-> s[1], h |-> s[2]] : s \in ImageSizes}

\* the try/except of crop_card without the except clause
Handler_Reraise(e) ==
  [pc |-> "raised", result |-> None]

\* except Exception as e: return {"success": False, ...}
Handler(e) ==
  [pc |-> "returned",
   result |-> [success |-> FALSE,
               message |-> "Error processing image: " \o e.text,
               error |-> e.text]]

\* an exception raised in `stage` reaches the except clause of crop_card
Caught(stage, text) ==
  LET e == [stage |-> stage, text |-> text] IN
  /\ exc' = e
  /\ pc' = Handler(e).pc
  /\ result' = Handler(e).result

\* a library call of the stage fails for lack of memory
OutOfMemory(stage) == Caught(stage, "MemoryError")

Init ==
  /\ pc = "call"
  /\ image_bytes \in Inputs
  /\ image = None
  /\ is_screenshot = FALSE
  /\ combined = None
  /\ todo = 0
  /\ candidates = <<>>
  /\ card_bbox = None
  /\ confidence = RZero
  /\ apply_margin = None
  /\ cropped_card = None
  /\ exc = None
  /\ result = None
  /\ call = NoCall
  /\ ret = None

\* np.frombuffer, cv2.imdecode, the `image is None` return
Decode ==
  /\ pc = "call"
  /\ UNCHANGED <<image_bytes, is_screenshot, combined, todo, candidates,
                 card_bbox, confidence, apply_margin, cropped_card, call, ret>>
  /\ \/ /\ image_bytes.kind = "empty"
        /\ Caught("decode", "cv2.error: !buf.empty() in function imdecode_")
        /\ UNCHANGED image
     \/ /\ image_bytes.kind = "garbage"
        /\ pc' = "returned"
        /\ result' = DecodeFailedResult
        /\ UNCHANGED <<image, exc>>
     \/ /\ image_bytes.kind = "image"
        /\ pc' = "decoded"
        /\ image' = [w |-> image_bytes.w, h |-> image_bytes.h]
        /\ UNCHANGED <<exc, result>>
     \/ /\ image_bytes.kind = "image"
        /\ OutOfMemory("decode")
        /\ UNCHANGED image

(***************************************************************************)
(* _detect_screenshot_ui.  NaN is what numpy gives for the mean, standard  *)
(* deviation or 0/0 ratio of an empty strip; every comparison with NaN is  *)
(* false.                                                                  *)
(***************************************************************************)
NaN == [nan |-> TRUE]
FLt(a, b) == IF a = NaN \/ b = NaN THEN FALSE ELSE RLt(a, b)
FGt(a, b) == FLt(b, a)
Num(k) == Rat(k, 1)

\* gray[:int(height * 0.05), :]
TopStripEmpty(w, h) == IntPct(h, 5) = 0 \/ w = 0
\* gray[:int(height * 0.08), :int(width * 0.15)]
TopLeftEmpty(w, h) == IntPct(h, 8) = 0 \/ IntPct(w, 15) = 0
\* gray[:int(height * 0.08), int(width * 0.3):int(width * 0.7)]
TopCenterEmpty(w, h) == IntPct(h, 8) = 0 \/ IntPct(w, 70) <= IntPct(w, 30)

IsScreenshot(top_std, top_mean, edge_density, top_center_std) ==
  \/ FLt(top_std, Num(40)) /\ FGt(top_mean, Num(20))
  \/ FGt(edge_density, Pct(2))
  \/ FGt(top_center_std, Num(30))

\* statistics of a non-empty strip, on both sides of each threshold
StdValues(limit) == {Num(limit - 1), Num(limit), Num(limit + 1)}
DensityValues == {Pct(0), Pct(2), Pct(3)}

\* gray/hsv conversion, np.mean, then _detect_screenshot_ui(image).  On an
\* empty top-left strip cv2.Canny either raises or returns an empty edge map
\* (the build decides); the edge density of an empty map is 0/0.
DetectScreenshot ==
  /\ pc = "decoded"
  /\ UNCHANGED <<image_bytes, image, combined, todo, candidates, card_bbox,
                 confidence, apply_margin, cropped_card, call, ret>>
  /\ \/ /\ TopLeftEmpty(image.w, image.h)
        /\ Caught("screenshot", "cv2.error: Canny on an empty strip")
        /\ UNCHANGED is_screenshot
     \/ OutOfMemory("screenshot") /\ UNCHANGED is_screenshot
     \/ \E top_std \in IF TopStripEmpty(image.w, image.h)
                        THEN {NaN} ELSE StdValues(40),
           top_mean \in IF TopStripEmpty(image.w, image.h)
                         THEN {NaN} ELSE StdValues(20),
           edge_density \in IF TopLeftEmpty(image.w, image.h)
                             THEN {NaN} ELSE DensityValues,
           top_center_std \in IF TopCenterEmpty(image.w, image.h)
                               THEN {NaN} ELSE StdValues(30) :
          /\ is_screenshot' =
               IsScreenshot(top_std, top_mean, edge_density, top_center_std)
          /\ pc' = "classified"
          /\ UNCHANGED <<exc, result>>

(***************************************************************************)
(* _detect_card_contour_advanced: the segmentation strategy.               *)
(***************************************************************************)
\* _detect_wood_background: wood_ratio > 0.15
HasWoodBackground_Geq(wood_ratio) == RLe(Pct(15), wood_ratio)

HasWoodBackground(wood_ratio) == RLt(Pct(15), wood_ratio)

Strategy(wood_ratio, mean_brightness) ==
  IF HasWoodBackground(wood_ratio) THEN "wood"
  ELSE IF mean_brightness < 100 THEN "dark"
  ELSE "light"

\* the mask `combined` after the strategy's thresholds and the close/open
Segment ==
  /\ pc = "classified"
  /\ UNCHANGED <<image_bytes, image, is_screenshot, todo, candidates,
                 card_bbox, confidence, apply_margin, cropped_card, call, ret>>
  /\ \/ OutOfMemory("segment") /\ UNCHANGED combined
     \/ \E wood_ratio \in {Pct(0), Pct(15), Pct(16)},
           mean_brightness \in {99, 100} :
          /\ combined' = [strategy |-> Strategy(wood_ratio, mean_brightness),
                           wood_ratio |-> wood_ratio,
                           mean_brightness |-> mean_brightness]
          /\ pc' = "segmented"
          /\ UNCHANGED <<exc, result>>

(***************************************************************************)
(* cv2.findContours and the candidate loop.  A contour is what the loop    *)
(* reads of it: bounding rectangle, area, hull area, vertex count of its   *)
(* polygon approximation.  The contour of a filled w x h pixel rectangle   *)
(* runs through pixel centres: its area is (w-1)*(h-1).                    *)
(***************************************************************************)
Min(a, b) == IF a < b THEN a ELSE b
Max(a, b) == IF a < b THEN b ELSE a

BoxesOf(w, h) ==
  {b \in {<<0, 0, w, h>>,
          <<w \div 5, h \div 5, (3 * w) \div 5, (3 * h) \div 5>>,
          <<1, 1, 8, 6>>,
          <<w - 9, h - 7, 8, 6>>} :
     /\ b[1] >= 0 /\ b[2] >= 0 /\ b[3] >= 1 /\ b[4] >= 1
     /\ b[1] + b[3] <= w /\ b[2] + b[4] <= h}

\* a filled rectangle, a solid shape of half its area, a hollow shape of
\* half its area whose hull is (nearly) the rectangle
ShapesOf(b) ==
  LET full == (b[3] - 1) * (b[4] - 1)
      half == full \div 2
  IN {[area |-> full, hull_area |-> full],
      [area |-> half, hull_area |-> half],
      [area |-> half, hull_area |-> 2 * half]}

VertexCounts == {3, 4, 12, 13}

ContoursOf(w, h) ==
  UNION {{[bbox |-> b, area |-> s.area, hull_area |-> s.hull_area,
           num_vertices |-> v] : s \in ShapesOf(b), v \in VertexCounts} :
         b \in BoxesOf(w, h)}

\* area / image_area
AreaRatio(c, image_area) == Rat(c.area, image_area)
\* min(w, h) / max(w, h) if max(w, h) > 0 else 0
AspectRatio(c) ==
  IF Max(c.bbox[3], c.bbox[4]) > 0
  THEN Rat(Min(c.bbox[3], c.bbox[4]), Max(c.bbox[3], c.bbox[4]))
  ELSE RZero
\* area / hull_area if hull_area > 0 else 0
Solidity(c) == IF c.hull_area > 0 THEN Rat(c.area, c.hull_area) ELSE RZero

\* the three `continue` tests of the loop, negated
PassesFilters_NoVertexCeiling(c, image_area) ==
  /\ ~(RLt(AreaRatio(c, image_area), MIN_CARD_AREA_RATIO)
       \/ RLt(Pct(98), AreaRatio(c, image_area)))
  /\ ~RLt(ASPECT_RATIO_TOLERANCE, AspectDiff(AspectRatio(c)))
  /\ 4 <= c.num_vertices

PassesFilters(c, image_area) ==
  /\ ~(RLt(AreaRatio(c, image_area), MIN_CARD_AREA_RATIO)
       \/ RLt(Pct(98), AreaRatio(c, image_area)))
  /\ ~RLt(ASPECT_RATIO_TOLERANCE, AspectDiff(AspectRatio(c)))
  /\ 4 <= c.num_vertices /\ c.num_vertices <= 12

\* the dictionary appended to candidates
CandidateOf(c, image_area) ==
  [bbox |-> c.bbox,
   confidence |-> CalculateConfidenceAdvanced(AreaRatio(c, image_area),
                     AspectRatio(c), c.num_vertices, Solidity(c)),
   area_ratio |-> AreaRatio(c, image_area),
   aspect_ratio |-> AspectRatio(c),
   solidity |-> Solidity(c)]

\* max(candidates, key=lambda x: x["confidence"]): the first of the maxima
BestCandidate_LastMaximum(cands) ==
  cands[CHOOSE i \in 1..Len(cands) :
          /\ \A j \in 1..Len(cands) : RLe(cands[j].confidence, cands[i].confidence)
          /\ \A j \in (i + 1)..Len(cands) : RLt(cands[j].confidence, cands[i].confidence)]

BestCandidate(cands) ==
  cands[CHOOSE i \in 1..Len(cands) :
          /\ \A j \in 1..Len(cands) : RLe(cands[j].confidence, cands[i].confidence)
          /\ \A j \in 1..(i - 1) : RLt(cands[j].confidence, cands[i].confidence)]

\* cv2.findContours; `if not contours: return None, 0.0, is_screenshot`.
\* The mask is not read again after this call.
FindContours ==
  /\ pc = "segmented"
  /\ UNCHANGED <<image_bytes, image, is_screenshot, candidates,
                 apply_margin, cropped_card, call, ret>>
  /\ \/ /\ OutOfMemory("contours")
        /\ UNCHANGED <<combined, todo, card_bbox, confidence>>
     \/ /\ pc' = "detected"
        /\ combined' = None
        /\ card_bbox' = None
        /\ confidence' = RZero
        /\ UNCHANGED <<todo, exc, result>>
     \/ \E n \in 1..MaxContours :
          /\ todo' = n
          /\ combined' = None
          /\ pc' = "loop"
          /\ UNCHANGED <<card_bbox, confidence, exc, result>>

\* one iteration of `for contour in contours`
ProcessContour ==
  /\ pc = "loop"
  /\ todo > 0
  /\ UNCHANGED <<image_bytes, image, is_screenshot, combined, card_bbox,
                 confidence, apply_margin, cropped_card, call, ret>>
  /\ \/ OutOfMemory("contours") /\ UNCHANGED <<todo, candidates>>
     \/ \E c \in ContoursOf(image.w, image.h) :
          /\ candidates' =
               IF PassesFilters(c, image.w * image.h)
               THEN Append(candidates, CandidateOf(c, image.w * image.h))
               ELSE candidates
          /\ todo' = todo - 1
          /\ UNCHANGED <<pc, exc, result>>

\* `if not candidates: return None, 0.0, ...`, else the best candidate
SelectBest ==
  /\ pc = "loop"
  /\ todo = 0
  /\ pc' = "detected"
  /\ card_bbox' = IF candidates = <<>> THEN None
                  ELSE [bbox |-> BestCandidate(candidates).bbox]
  /\ confidence' = IF candidates = <<>> THEN RZero
                   ELSE BestCandidate(candidates).confidence
  /\ UNCHANGED <<image_bytes, image, is_screenshot, combined, todo, candidates,
                 apply_margin, cropped_card, exc, result, call, ret>>

(***************************************************************************)
(* _extract_card_bbox and _rotate_to_upright.                              *)
(***************************************************************************)
\* length of the numpy slice a[lo:hi] of an axis of n elements
SliceIndex(i, n) == IF i < 0 THEN Max(i + n, 0) ELSE Min(i, n)
SliceLen(lo, hi, n) == Max(0, SliceIndex(hi, n) - SliceIndex(lo, n))

\* the margin rounded to the nearest pixel instead of truncated
Margin_Rounded(side, with_margin) ==
  IF with_margin THEN (side * MARGIN_INSET_PERCENT + 50) \div 100 ELSE 0

\* the margin with the percentage taken as a factor: int(w * 2)
Margin_WholeFactor(side, with_margin) ==
  IF with_margin THEN side * MARGIN_INSET_PERCENT ELSE 0

\* int(w * self.MARGIN_INSET_PERCENT) when apply_margin, else 0
Margin(side, with_margin) ==
  IF with_margin THEN IntPct(side, MARGIN_INSET_PERCENT) ELSE 0

\* x1, y1, x2, y2 after the max(0, .) and min(img, .)
ClampedBox(img_w, img_h, bbox, with_margin) ==
  LET x == bbox[1]
      y == bbox[2]
      w == bbox[3]
      h == bbox[4]
      margin_x == Margin(w, with_margin)
      margin_y == Margin(h, with_margin)
  IN <<Max(0, x + margin_x), Max(0, y + margin_y),
       Min(img_w, x + w - margin_x), Min(img_h, y + h - margin_y)>>

\* the fallback test with < for <=
CropBox_Strict(img_w, img_h, bbox, with_margin) ==
  LET c == ClampedBox(img_w, img_h, bbox, with_margin) IN
  IF c[3] < c[1] \/ c[4] < c[2]
  THEN <<bbox[1], bbox[2], bbox[1] + bbox[3], bbox[2] + bbox[4]>>
  ELSE c

\* `if x2 <= x1 or y2 <= y1: x1, y1, x2, y2 = x, y, x + w, y + h`
CropBox(img_w, img_h, bbox, with_margin) ==
  LET c == ClampedBox(img_w, img_h, bbox, with_margin) IN
  IF c[3] <= c[1] \/ c[4] <= c[2]
  THEN <<bbox[1], bbox[2], bbox[1] + bbox[3], bbox[2] + bbox[4]>>
  ELSE c

\* the red and blue pixel counts of the two strips of `pixels` pixels each
ColourCounts(pixels) ==
  {k \in [left_red : 0..MaxCount, left_blue : 0..MaxCount,
          right_red : 0..MaxCount, right_blue : 0..MaxCount] :
     /\ k.left_red + k.left_blue <= pixels
     /\ k.right_red + k.right_blue <= pixels}

\* int(w * 0.12)
StripWidth(w) == IntPct(w, 12)

\* max(red, blue * 1.5), doubled
PsaScore2(red, blue) == Max(2 * red, 3 * blue)

\* the rotation decision with >= for >
RotateToUpright_Geq(w, h, k) ==
  IF StripWidth(w) * h = 0
  THEN [raised |-> TRUE, rotation |-> "none"]
  ELSE [raised |-> FALSE,
        rotation |-> IF PsaScore2(k.right_red, k.right_blue)
                          >= PsaScore2(k.left_red, k.left_blue)
                     THEN "ccw" ELSE "cw"]

\* _rotate_to_upright on a w x h image.  cv2.cvtColor asserts !_src.empty():
\* it raises on a strip of no pixels.
RotateToUpright(w, h, k) ==
  IF StripWidth(w) * h = 0
  THEN [raised |-> TRUE, rotation |-> "none"]
  ELSE [raised |-> FALSE,
        rotation |-> IF PsaScore2(k.right_red, k.right_blue)
                          > PsaScore2(k.left_red, k.left_blue)
                     THEN "ccw" ELSE "cw"]

\* the crop returned as it was cut, never rotated
ExtractCardBbox_NeverTurns(img_w, img_h, bbox, with_margin, k) ==
  LET box == CropBox(img_w, img_h, bbox, with_margin)
      crop_w == SliceLen(box[1], box[3], img_w)
      crop_h == SliceLen(box[2], box[4], img_h)
  IN [raised |-> FALSE, box |-> box, rotation |-> "none",
      w |-> crop_w, h |-> crop_h]

\* the orientation test with >= for >: square crops are turned as well
ExtractCardBbox_TurnsSquares(img_w, img_h, bbox, with_margin, k) ==
  LET box == CropBox(img_w, img_h, bbox, with_margin)
      crop_w == SliceLen(box[1], box[3], img_w)
      crop_h == SliceLen(box[2], box[4], img_h)
      rot == RotateToUpright(crop_w, crop_h, k)
  IN IF crop_w >= crop_h
     THEN [raised |-> rot.raised, box |-> box, rotation |-> rot.rotation,
           w |-> crop_h, h |-> crop_w]
     ELSE [raised |-> FALSE, box |-> box, rotation |-> "none",
           w |-> crop_w, h |-> crop_h]

\* the rotated crop reported with the size it had before the rotation
ExtractCardBbox_NoSwap(img_w, img_h, bbox, with_margin, k) ==
  LET box == CropBox(img_w, img_h, bbox, with_margin)
      crop_w == SliceLen(box[1], box[3], img_w)
      crop_h == SliceLen(box[2], box[4], img_h)
      rot == RotateToUpright(crop_w, crop_h, k)
  IN IF crop_w > crop_h
     THEN [raised |-> rot.raised, box |-> box, rotation |-> rot.rotation,
           w |-> crop_w, h |-> crop_h]
     ELSE [raised |-> FALSE, box |-> box, rotation |-> "none",
           w |-> crop_w, h |-> crop_h]

\* _extract_card_bbox: the crop and, when it is wider than tall, its rotation
ExtractCardBbox(img_w, img_h, bbox, with_margin, k) ==
  LET box == CropBox(img_w, img_h, bbox, with_margin)
      crop_w == SliceLen(box[1], box[3], img_w)
      crop_h == SliceLen(box[2], box[4], img_h)
      rot == RotateToUpright(crop_w, crop_h, k)
  IN IF crop_w > crop_h
     THEN [raised |-> rot.raised, box |-> box, rotation |-> rot.rotation,
           w |-> crop_h, h |-> crop_w]
     ELSE [raised |-> FALSE, box |-> box, rotation |-> "none",
           w |-> crop_w, h |-> crop_h]

\* the counts the strips of the crop of `bbox` can hold
StripCounts(img_w, img_h, bbox, with_margin) ==
  LET box == CropBox(img_w, img_h, bbox, with_margin)
      crop_w == SliceLen(box[1], box[3], img_w)
      crop_h == SliceLen(box[2], box[4], img_h)
  IN IF crop_w > crop_h THEN ColourCounts(StripWidth(crop_w) * crop_h)
     ELSE ColourCounts(0)

(***************************************************************************)
(* crop_card after detection.                                              *)
(***************************************************************************)
\* `if card_bbox is None: return {...}`.  The candidate list is a local of
\* _detect_card_contour_advanced: crop_card never sees it.
ReturnNoCard ==
  /\ pc = "detected"
  /\ card_bbox = None
  /\ pc' = "returned"
  /\ candidates' = <<>>
  /\ result' = NoCardResult(image.w, image.h)
  /\ UNCHANGED <<image_bytes, image, is_screenshot, combined, todo,
                 card_bbox, confidence, apply_margin, cropped_card, exc, call, ret>>

\* the apply_margin argument crop_card passes, with the flag inverted
ApplyMargin_Inverted(screenshot) == screenshot

\* apply_margin=not is_screenshot
ApplyMargin(screenshot) == ~screenshot

\* the else branch: the call self._extract_card_bbox(image, card_bbox,
\* apply_margin=not is_screenshot) binds its arguments
CallExtract ==
  /\ pc = "detected"
  /\ card_bbox # None
  /\ pc' = "extracting"
  /\ apply_margin' = [flag |-> ApplyMargin(is_screenshot)]
  /\ candidates' = <<>>
  /\ UNCHANGED <<image_bytes, image, is_screenshot, combined, todo,
                 card_bbox, confidence, cropped_card, exc, result, call, ret>>

\* the body of _extract_card_bbox; its value becomes cropped_card
Extract ==
  /\ pc = "extracting"
  /\ UNCHANGED <<image_bytes, image, is_screenshot, combined, todo, candidates,
                 card_bbox, confidence, apply_margin, call, ret>>
  /\ \/ OutOfMemory("extract") /\ UNCHANGED cropped_card
     \/ \E k \in StripCounts(image.w, image.h, card_bbox.bbox, apply_margin.flag) :
          LET out == ExtractCardBbox(image.w, image.h, card_bbox.bbox,
                                     apply_margin.flag, k)
          IN IF out.raised
             THEN /\ Caught("rotate", "cv2.error: !_src.empty() in function cvtColor")
                  /\ UNCHANGED cropped_card
             ELSE /\ cropped_card' = [box |-> out.box, rotation |-> out.rotation,
                                      w |-> out.w, h |-> out.h]
                  /\ pc' = "extracted"
                  /\ UNCHANGED <<exc, result>>

\* _image_to_base64: cv2.cvtColor raises on an image of no pixels; otherwise
\* the PNG of the image, base64-encoded, behind the data-URL prefix
ImageToBase64(img) ==
  IF img.w * img.h = 0
  THEN [raised |-> TRUE, text |-> ""]
  ELSE [raised |-> FALSE,
        text |-> "data:image/png;base64," \o "b64(png("
                   \o ToString(img.w) \o "x" \o ToString(img.h)
                   \o "," \o img.rotation \o "))"]

\* `if cropped_card is None: return {...}`, else encode and return success
Finish ==
  /\ pc = "extracted"
  /\ UNCHANGED <<image_bytes, image, is_screenshot, combined, todo, candidates,
                 card_bbox, confidence, apply_margin, cropped_card, call, ret>>
  /\ \/ OutOfMemory("encode")
     \/ IF cropped_card = None
        THEN /\ pc' = "returned"
             /\ result' = ExtractFailedResult(confidence, image.w, image.h)
             /\ UNCHANGED exc
        ELSE IF ImageToBase64(cropped_card).raised
        THEN Caught("encode", "cv2.error: !_src.empty() in function cvtColor")
        ELSE /\ pc' = "returned"
             /\ result' = SuccessResult(ImageToBase64(cropped_card).text,
                                        confidence, image.w, image.h,
                                        cropped_card)
             /\ UNCHANGED exc

Next ==
  \/ Decode
  \/ DetectScreenshot
  \/ Segment
  \/ FindContours
  \/ ProcessContour
  \/ SelectBest
  \/ ReturnNoCard
  \/ CallExtract
  \/ Extract
  \/ Finish

Spec == Init /\ [][Next]_vars

(***************************************************************************)
(* Direct calls of the scorer on a grid of arguments that holds every band *)
(* edge of the four sub-scores and its two neighbours.                     *)
(***************************************************************************)
\* hundredths: the band edges of area_ratio and solidity, each with its
\* neighbours, and the ends of [0,1]
AreaPoints == {0, 1, 2, 4, 5, 6, 14, 15, 16, 29, 30, 31, 39, 40, 41, 55,
               69, 70, 71, 94, 95, 96, 98, 99, 100}
SolidityPoints == {0, 50, 69, 70, 71, 84, 85, 86, 89, 90, 91, 94, 95, 96, 100}
\* 700ths: 500/700 is the card ratio; the band edges are 56, 105, 140 and
\* 210 away from it on either side
AspectPoints == {0, 100, 289, 290, 291, 359, 360, 361, 394, 395, 396,
                 443, 444, 445, 499, 500, 501, 555, 556, 557, 604, 605, 606,
                 639, 640, 641, 699, 700}

ScoreArgs ==
  [fn : {"score"},
   area_ratio : {Rat(k, 100) : k \in AreaPoints},
   aspect_ratio : {Rat(k, 700) : k \in AspectPoints},
   num_vertices : 3..MaxVertices,
   solidity : {Rat(k, 100) : k \in SolidityPoints}]

InitScore ==
  /\ PipelineIdle
  /\ call \in ScoreArgs
  /\ ret = None

ApplyScore ==
  /\ call.fn = "score"
  /\ ret = None
  /\ ret' = ConfidenceFrame(call.area_ratio, call.aspect_ratio,
                            call.num_vertices, call.solidity)
  /\ UNCHANGED <<pipeVars, call>>

NextScore == ApplyScore

SpecScore == InitScore /\ [][NextScore]_vars

(***************************************************************************)
(* Direct calls of _extract_card_bbox(image, bbox, apply_margin) on boxes  *)
(* of any position and size, degenerate and out-of-image ones included.    *)
(***************************************************************************)
ExtractArgs ==
  [fn : {"extract"},
   img_w : {25 * k : k \in 1..MaxCoord},
   img_h : {25 * k : k \in 1..MaxCoord},
   x : {25 * k : k \in (-1)..MaxCoord},
   y : {25 * k : k \in (-1)..MaxCoord},
   w : {25 * k : k \in 0..MaxCoord},
   h : {25 * k : k \in 0..MaxCoord},
   apply_margin : BOOLEAN]

InitExtract ==
  /\ PipelineIdle
  /\ call \in ExtractArgs
  /\ ret = None

\* strips without a red or navy pixel
NoLabel == [left_red |-> 0, left_blue |-> 0, right_red |-> 0, right_blue |-> 0]

\* _extract_card_bbox(cropped, bbox, apply_margin): the output `cropped` of
\* a first call handed back with the same box and flag.  Recorded are the
\* second crop box, the second output's size and whether it was turned
\* (the direction of a second turn is not recorded).
ExtractAgain(cropped, bbox, with_margin) ==
  IF cropped.raised THEN None
  ELSE LET out == ExtractCardBbox(cropped.w, cropped.h, bbox, with_margin,
                                  NoLabel)
       IN [box |-> out.box, w |-> out.w, h |-> out.h,
           turned |-> out.raised \/ out.rotation # "none"]

\* the locals of the call (the clamped box, the crop box), its outcome, and
\* the outcome of handing the output back with the same box and flag
ApplyExtract ==
  /\ call.fn = "extract"
  /\ ret = None
  /\ \E k \in StripCounts(call.img_w, call.img_h,
                         <<call.x, call.y, call.w, call.h>>, call.apply_margin) :
       LET bbox == <<call.x, call.y, call.w, call.h>>
           out == ExtractCardBbox(call.img_w, call.img_h, bbox,
                                  call.apply_margin, k)
       IN ret' = [clamped |-> ClampedBox(call.img_w, call.img_h, bbox,
                                         call.apply_margin),
                  box |-> out.box, raised |-> out.raised,
                  rotation |-> out.rotation, w |-> out.w, h |-> out.h,
                  again |-> ExtractAgain(out, bbox, call.apply_margin)]
  /\ UNCHANGED <<pipeVars, call>>

NextExtract == ApplyExtract

SpecExtract == InitExtract /\ [][NextExtract]_vars

(***************************************************************************)
(* Direct calls of _extract_card_bbox on boxes inside the image, with the  *)
(* label-colour content of the crop's two strips as part of the image.     *)
(* The call is made twice: on the image and on the image with the two      *)
(* strips of the crop exchanged (left and right mirrored).                 *)
(***************************************************************************)
OrientSides == {6, 8, 12, 20}

\* the crop with its left and right strips exchanged
Mirror(k) ==
  [left_red |-> k.right_red, left_blue |-> k.right_blue,
   right_red |-> k.left_red, right_blue |-> k.left_blue]

OrientArgs ==
  {a \in [fn : {"orient"},
          img_w : OrientSides,
          img_h : OrientSides,
          inner : BOOLEAN,
          apply_margin : BOOLEAN,
          counts : [left_red : 0..(MaxCount + 1), left_blue : 0..(MaxCount + 1),
                    right_red : 0..(MaxCount + 1), right_blue : 0..(MaxCount + 1)]] :
     \* a strip holds at most its number of pixels
     a.counts.left_red + a.counts.left_blue <= 4
       /\ a.counts.right_red + a.counts.right_blue <= 4}

\* the box of the call: the whole image or the image without its border
OrientBox(a) ==
  IF a.inner THEN <<1, 1, a.img_w - 2, a.img_h - 2>>
  ELSE <<0, 0, a.img_w, a.img_h>>

InitOrient ==
  /\ PipelineIdle
  /\ call \in OrientArgs
  /\ ret = None

ApplyOrient ==
  /\ call.fn = "orient"
  /\ ret = None
  /\ LET out == ExtractCardBbox(call.img_w, call.img_h, OrientBox(call),
                                call.apply_margin, call.counts)
         mir == ExtractCardBbox(call.img_w, call.img_h, OrientBox(call),
                                call.apply_margin, Mirror(call.counts))
     IN ret' = [box |-> out.box, raised |-> out.raised,
                rotation |-> out.rotation, w |-> out.w, h |-> out.h,
                mirrored |-> [raised |-> mir.raised,
                              rotation |-> mir.rotation,
                              w |-> mir.w, h |-> mir.h]]
  /\ UNCHANGED <<pipeVars, call>>

NextOrient == ApplyOrient

SpecOrient == InitOrient /\ [][NextOrient]_vars

(***************************************************************************)
(* crop_card as one call on a decoded image, given what the library calls  *)
(* return for it: the classification, the contour list, the strip counts.  *)
(***************************************************************************)
\* the loop over `contours`: the candidates in contour order
Candidates(contours, image_area) ==
  LET kept == SelectSeq(contours, LAMBDA c : PassesFilters(c, image_area))
  IN [i \in 1..Len(kept) |-> CandidateOf(kept[i], image_area)]

\* the two early returns of _detect_card_contour_advanced and its last line
DetectCardContour(contours, image_area) ==
  LET cands == Candidates(contours, image_area) IN
  IF contours = <<>> \/ cands = <<>>
  THEN [card_bbox |-> None, confidence |-> RZero]
  ELSE [card_bbox |-> [bbox |-> BestCandidate(cands).bbox],
        confidence |-> BestCandidate(cands).confidence]

\* crop_card from the return of _detect_card_contour_advanced on
CropCardAfterDetection(img_w, img_h, screenshot, det, k) ==
  LET out == ExtractCardBbox(img_w, img_h, det.card_bbox.bbox,
                             ApplyMargin(screenshot), k)
  IN IF det.card_bbox = None THEN NoCardResult(img_w, img_h)
     ELSE IF out.raised
     THEN Handler([stage |-> "rotate",
                   text |-> "cv2.error: !_src.empty() in function cvtColor"]).result
     ELSE IF ImageToBase64(out).raised
     THEN Handler([stage |-> "encode",
                   text |-> "cv2.error: !_src.empty() in function cvtColor"]).result
     ELSE SuccessResult(ImageToBase64(out).text, det.confidence,
                        img_w, img_h, out)

\* crop_card from the decoded image on
CropCard(img_w, img_h, screenshot, contours, k) ==
  CropCardAfterDetection(img_w, img_h, screenshot,
                         DetectCardContour(contours, img_w * img_h), k)

(***************************************************************************)
(* An image whose pixels all have one colour, of gray level `gray`;        *)
(* `wood` says the colour lies in the wood range of _detect_wood_background*)
(* (then every pixel does: wood_ratio = 1).  Its strips have standard      *)
(* deviation 0 and mean `gray`, and cv2.Canny finds no edge in it.         *)
(***************************************************************************)
UniformIsScreenshot(gray) == IsScreenshot(Num(0), Num(gray), Pct(0), Num(0))

\* the mask `combined` is all foreground (TRUE) or all background (FALSE):
\*   wood  : the wood mask, a superset of the detection range, excludes all
\*   dark  : cv2.threshold(gray, 40, 255, THRESH_BINARY)
\*   light : cv2.threshold(gray, 200, 255, THRESH_BINARY_INV); the adaptive
\*           threshold (pixel <= mean - 2) marks nothing
\* and the close/open with a 5 x 5 kernel leave either mask as it is
UniformMaskFull(gray, wood) ==
  LET strategy == Strategy(IF wood THEN Pct(100) ELSE Pct(0), gray) IN
  CASE strategy = "wood" -> FALSE
    [] strategy = "dark" -> gray > 40
    [] strategy = "light" -> gray <= 200

\* cv2.findContours of the mask: nothing, or the frame's outline
UniformContours(w, h, gray, wood) ==
  IF UniformMaskFull(gray, wood)
  THEN <<[bbox |-> <<0, 0, w, h>>, area |-> (w - 1) * (h - 1),
          hull_area |-> (w - 1) * (h - 1), num_vertices |-> 4]>>
  ELSE <<>>

GrayLevels == {0, 20, 21, 40, 41, 99, 100, 200, 201, 255}

SceneSizes == {<<20, 20>>, <<50, 70>>, <<70, 50>>, <<100, 140>>,
               <<1000, 1400>>, <<1400, 1000>>}

SceneArgs ==
  UNION {{[fn |-> "crop", kind |-> "contours", img_w |-> s[1], img_h |-> s[2],
            is_screenshot |-> b, contours |-> cs] :
             b \in BOOLEAN,
             cs \in {<<>>} \cup {<<c>> : c \in ContoursOf(s[1], s[2])}} :
         s \in SceneSizes}
  \cup
  {[fn |-> "crop", kind |-> "uniform", img_w |-> s[1], img_h |-> s[2],
    gray |-> g, wood |-> wd] :
     s \in SceneSizes, g \in GrayLevels, wd \in BOOLEAN}

\* what the library calls return for the image of the call
SceneScreenshot(a) ==
  IF a.kind = "uniform" THEN UniformIsScreenshot(a.gray) ELSE a.is_screenshot
SceneContours(a) ==
  IF a.kind = "uniform" THEN UniformContours(a.img_w, a.img_h, a.gray, a.wood)
  ELSE a.contours
SceneBox(a) ==
  LET det == DetectCardContour(SceneContours(a), a.img_w * a.img_h) IN
  IF det.card_bbox = None THEN <<0, 0, 0, 0>> ELSE det.card_bbox.bbox

InitScene ==
  /\ PipelineIdle
  /\ call \in SceneArgs
  /\ ret = None

ApplyScene ==
  /\ call.fn = "crop"
  /\ ret = None
  /\ \E k \in StripCounts(call.img_w, call.img_h, SceneBox(call),
                         ApplyMargin(SceneScreenshot(call))) :
       ret' = [is_screenshot |-> SceneScreenshot(call),
               contours |-> SceneContours(call),
               result |-> CropCard(call.img_w, call.img_h,
                                   SceneScreenshot(call),
                                   SceneContours(call), k)]
  /\ UNCHANGED <<pipeVars, call>>

NextScene == ApplyScene

SpecScene == InitScene /\ [][NextScene]_vars

(***************************************************************************)
(* Two invocations of crop_card on the one CardCropper instance of app.py, *)
(* their steps interleaved.  call.args[t] is the decoded image of          *)
(* invocation t with what the library returns for it; ret.frames[t] holds  *)
(* the locals of invocation t; ret.store holds the candidate lists, keyed  *)
(* by the place the code keeps them in; ret.overlap says that some step    *)
(* was taken while the other invocation was under way.                     *)
(***************************************************************************)
Threads == {1, 2}

\* the candidate list kept as an attribute of the shared instance
CandidateStore_OnInstance(t) == 0

\* `candidates = []` binds a local of the invocation
CandidateStore(t) == t

ConcContours(w, h) ==
  {c \in ContoursOf(w, h) : c.num_vertices \in {4, 13} /\ c.bbox[3] > 8}

ConcArgs ==
  UNION {{[img_w |-> s[1], img_h |-> s[2], is_screenshot |-> b,
           contours |-> cs, counts |-> k] :
            b \in BOOLEAN,
            cs \in {<<>>} \cup {<<c>> : c \in ConcContours(s[1], s[2])},
            k \in {NoLabel, [NoLabel EXCEPT !.right_red = 1]}} :
         s \in {<<50, 70>>, <<70, 50>>}}

StartFrame ==
  [pc |-> "start", i |-> 0, card_bbox |-> None, confidence |-> RZero,
   result |-> None]

InitConc ==
  /\ PipelineIdle
  /\ \E args \in [Threads -> ConcArgs] :
       call = [fn |-> "concurrent", args |-> args]
  /\ ret = [frames |-> [t \in Threads |-> StartFrame],
            store |-> [key \in {0} \cup Threads |-> <<>>],
            overlap |-> FALSE]

Busy(t) == ret.frames[t].pc \notin {"start", "returned"}

\* invocation t takes a step
ConcStep(t, frame, store) ==
  /\ ret' = [frames |-> [ret.frames EXCEPT ![t] = frame],
             store |-> store,
             overlap |-> ret.overlap \/ \E u \in Threads \ {t} : Busy(u)]
  /\ UNCHANGED <<pipeVars, call>>

\* classification, segmentation, cv2.findContours; `if not contours:
\* return None, 0.0, is_screenshot`; `candidates = []`
ConcFindContours(t) ==
  /\ call.fn = "concurrent"
  /\ ret.frames[t].pc = "start"
  /\ IF call.args[t].contours = <<>>
     THEN ConcStep(t, [ret.frames[t] EXCEPT !.pc = "detected"], ret.store)
     ELSE ConcStep(t, [ret.frames[t] EXCEPT !.pc = "loop", !.i = 1],
                   [ret.store EXCEPT ![CandidateStore(t)] = <<>>])

\* one iteration of `for contour in contours`
ConcProcessContour(t) ==
  /\ call.fn = "concurrent"
  /\ ret.frames[t].pc = "loop"
  /\ ret.frames[t].i <= Len(call.args[t].contours)
  /\ LET a == call.args[t]
         c == a.contours[ret.frames[t].i]
         key == CandidateStore(t)
     IN ConcStep(t, [ret.frames[t] EXCEPT !.i = @ + 1],
                 IF PassesFilters(c, a.img_w * a.img_h)
                 THEN [ret.store EXCEPT
                         ![key] = Append(@, CandidateOf(c, a.img_w * a.img_h))]
                 ELSE ret.store)

\* `if not candidates: return None, 0.0, ...`, else the best candidate
ConcSelectBest(t) ==
  /\ call.fn = "concurrent"
  /\ ret.frames[t].pc = "loop"
  /\ ret.frames[t].i > Len(call.args[t].contours)
  /\ LET cands == ret.store[CandidateStore(t)] IN
     ConcStep(t,
              [ret.frames[t] EXCEPT
                 !.pc = "detected",
                 !.card_bbox = IF cands = <<>> THEN None
                               ELSE [bbox |-> BestCandidate(cands).bbox],
                 !.confidence = IF cands = <<>> THEN RZero
                                ELSE BestCandidate(cands).confidence],
              ret.store)

\* crop_card after detection: the no-card return, or extraction, encoding
\* and the success return
ConcFinish(t) ==
  /\ call.fn = "concurrent"
  /\ ret.frames[t].pc = "detected"
  /\ LET a == call.args[t]
         det == [card_bbox |-> ret.frames[t].card_bbox,
                 confidence |-> ret.frames[t].confidence]
     IN ConcStep(t,
                 [ret.frames[t] EXCEPT
                    !.pc = "returned",
                    !.result = CropCardAfterDetection(a.img_w, a.img_h,
                                 a.is_screenshot, det, a.counts)],
                 ret.store)

NextConc ==
  \E t \in Threads :
    \/ ConcFindContours(t)
    \/ ConcProcessContour(t)
    \/ ConcSelectBest(t)
    \/ ConcFinish(t)

SpecConc == InitConc /\ [][NextConc]_vars

(***************************************************************************)
(* utils/gcs_uploader.py: GCSUploader.  Strings are Python strings; an     *)
(* Optional[str] is None or a string.                                      *)
(***************************************************************************)
\* `key in d`
HasKey(d, key) == key \in DOMAIN d
\* the dictionary d with d[key] = value added
WithKey(d, key, value) ==
  [k \in DOMAIN d \cup {key} |-> IF k = key THEN value ELSE d[k]]

\* text.startswith(prefix)
StartsWith(text, prefix) ==
  Len(text) >= Len(prefix) /\ SubSeq(text, 1, Len(prefix)) = prefix

\* the positions of the one-character string ch in s
Positions(s, ch) == {i \in 1..Len(s) : SubSeq(s, i, i) = ch}

\* s.split(ch)[-1]: what follows the last ch of s
SplitLast(s, ch) ==
  IF Positions(s, ch) = {} THEN s
  ELSE LET last == CHOOSE i \in Positions(s, ch) :
                     \A j \in Positions(s, ch) : j <= i
       IN SubSeq(s, last + 1, Len(s))

\* s.split(ch)[0]: what precedes the first ch of s
SplitFirst(s, ch) ==
  IF Positions(s, ch) = {} THEN s
  ELSE LET first == CHOOSE i \in Positions(s, ch) :
                      \A j \in Positions(s, ch) : i <= j
       IN SubSeq(s, 1, first - 1)

\* an Optional[str]: None is <<>>, the string s is <<s>>
NoStr == <<>>
Str(s) == <<s>>

\* Python's `a or b` on an Optional[str] a and a string b
StrOr(a, b) == IF a = NoStr \/ a = Str("") THEN b ELSE a[1]

\* _build_blob_path: f"{user}/{date_str}/{unique_id}_{filename}"; date_str
\* is the UTC date, uuid12 is uuid.uuid4().hex[:12]
BuildBlobPath(default_user_id, filename, user_id, card_id, date_str, uuid12) ==
  StrOr(user_id, default_user_id) \o "/" \o date_str \o "/"
    \o StrOr(card_id, uuid12) \o "_" \o filename

\* blob_path.split("/")[-1].split("_")[0]
CardIdUsed(blob_path) == SplitFirst(SplitLast(blob_path, "/"), "_")

\* An exception a call of the storage client raises, as an Optional[str]:
\* None when the call returns, else the name of the exception's class.
\* NotFound is a subclass of GoogleCloudError; TransportError
\* (google.auth.exceptions) and ConnectionError (requests) are not.
Exceptions ==
  {NoStr, Str("GoogleCloudError"), Str("NotFound"), Str("TransportError"),
   Str("ConnectionError")}

\* isinstance(e, GoogleCloudError) for a raised exception e
IsGoogleCloudError(e) == e \in {Str("GoogleCloudError"), Str("NotFound")}

\* the upload's two except clauses: GoogleCloudError, then Exception
UploadErrorMessage(e) ==
  IF IsGoogleCloudError(e) THEN "Upload failed: " \o e[1]
  ELSE "Unexpected upload error: " \o e[1]

\* _generate_signed_url: sign_exc is what blob.generate_signed_url raises
GenerateSignedUrl_EmptyString(sign_exc, url) ==
  IF sign_exc = NoStr THEN Str(url) ELSE Str("")

GenerateSignedUrl(sign_exc, url) ==
  IF sign_exc = NoStr THEN Str(url) ELSE NoStr

\* GCSUploader.upload_image on an uploader of the given bucket and default
\* user; upload_exc is what blob.upload_from_string raises (None when the
\* blob is stored), signed_url is what _generate_signed_url returns.  A
\* raised outcome is a GCSUploadError with the given text.
GcsUploadImage(uploader, size_bytes, filename, user_id, card_id, date_str, uuid12, upload_exc, signed_url, upload_time) ==
  LET blob_path == BuildBlobPath(uploader.default_user_id, filename, user_id,
                                 card_id, date_str, uuid12)
  IN IF upload_exc # NoStr
     THEN [raised |-> TRUE, error |-> UploadErrorMessage(upload_exc),
           blob_path |-> blob_path]
     ELSE [raised |-> FALSE,
           blob_path |-> blob_path,
           result |->
             [blob_path |-> blob_path,
              bucket |-> uploader.bucket_name,
              public_url |-> "https://storage.googleapis.com/"
                               \o uploader.bucket_name \o "/" \o blob_path,
              signed_url |-> signed_url,
              size_bytes |-> size_bytes,
              uploaded_at |-> upload_time,
              card_id |-> CardIdUsed(blob_path)]]

(***************************************************************************)
(* Direct calls of GCSUploader.upload_image.                               *)
(***************************************************************************)
Filenames == {"card.png", "my_card.png", "scans/card.png"}
UserIds == {NoStr, Str(""), Str("u1")}
CardIds == {NoStr, Str("c1"), Str("card_42"), Str("set/7")}
Dates == {"2025-01-15"}
Uuids == {"0123456789ab"}
SignedUrls == {GenerateSignedUrl(e, "https://signed-url.example.com") : e \in {NoStr, Str("AttributeError")}}

\* delete_image: delete_exc is what blob.delete raises; only a
\* GoogleCloudError is caught
DeleteImage(delete_exc) ==
  IF delete_exc = NoStr THEN [raised |-> FALSE, value |-> TRUE]
  ELSE IF IsGoogleCloudError(delete_exc) THEN [raised |-> FALSE, value |-> FALSE]
  ELSE [raised |-> TRUE, error |-> delete_exc[1]]

\* check_connection: reload_exc is what bucket.reload raises; every
\* Exception is caught
CheckConnection(reload_exc) ==
  [raised |-> FALSE, value |-> reload_exc = NoStr]

BlobPaths == {"user/2025-01-01/abc_card.png", "nonexistent/path.png"}
UploadTimes == {"2025-01-15T12:00:00+00:00"}
Uploaders == {[bucket_name |-> "test-bucket", default_user_id |-> "admin"]}

UploadArgs ==
  [fn : {"upload_image"},
   uploader : Uploaders,
   size_bytes : {0, 1234},
   filename : Filenames,
   user_id : UserIds,
   card_id : CardIds]
  \cup [fn : {"delete_image"}, uploader : Uploaders, blob_path : BlobPaths]
  \cup [fn : {"check_connection"}, uploader : Uploaders]

InitUpload ==
  /\ PipelineIdle
  /\ call \in UploadArgs
  /\ ret = None

ApplyUpload ==
  /\ call.fn = "upload_image"
  /\ ret = None
  /\ \E date_str \in Dates, uuid12 \in Uuids, upload_exc \in Exceptions,
        sign_exc \in {NoStr, Str("AttributeError")},
        upload_time \in UploadTimes :
       ret' = WithKey(GcsUploadImage(call.uploader, call.size_bytes,
                                     call.filename, call.user_id, call.card_id,
                                     date_str, uuid12, upload_exc,
                                     GenerateSignedUrl(sign_exc, "https://signed-url.example.com"),
                                     upload_time),
                      "env", [upload_exc |-> upload_exc, sign_exc |-> sign_exc])
  /\ UNCHANGED <<pipeVars, call>>

\* ret.env is what the storage client did in the call
ApplyDelete ==
  /\ call.fn = "delete_image"
  /\ ret = None
  /\ \E delete_exc \in Exceptions :
       ret' = WithKey(DeleteImage(delete_exc), "env",
                      [delete_exc |-> delete_exc])
  /\ UNCHANGED <<pipeVars, call>>

ApplyCheckConnection ==
  /\ call.fn = "check_connection"
  /\ ret = None
  /\ \E reload_exc \in Exceptions :
       ret' = WithKey(CheckConnection(reload_exc), "env",
                      [reload_exc |-> reload_exc])
  /\ UNCHANGED <<pipeVars, call>>

NextUpload == ApplyUpload \/ ApplyDelete \/ ApplyCheckConnection

SpecUpload == InitUpload /\ [][NextUpload]_vars

(***************************************************************************)
(* app.py: the endpoints POST /api/crop-image and POST /api/upload.  The   *)
(* handlers are coroutines that yield only in `await file.read()`, before  *)
(* they touch the module state, so one request is one step.                *)
(*   call.settings    : the Settings object, fixed when the process starts *)
(*   ret.gcs_uploader : the module-level singleton _gcs_uploader           *)
(*   ret.endpoint, ret.request, ret.env, ret.before, ret.uploads,          *)
(*   ret.crop_calls,                                                       *)
(*   ret.response     : the last request, what the environment did in it,  *)
(*                      the singleton before it, the calls of              *)
(*                      uploader.upload_image it made, and its response    *)
(***************************************************************************)
\* max_image_size_mb: int = 10
MaxImageSizeMb == 10
BytesPerMb == 1024 * 1024

Settings ==
  [gcs_upload_enabled : BOOLEAN,
   gcs_bucket_name : {NoStr, Str("test-bucket")},
   gcs_default_user_id : {"admin"},
   max_image_size_mb : {MaxImageSizeMb}]

\* raise HTTPException(status_code, detail): FastAPI answers with the status
\* and the body {"detail": detail}
HttpError(status_code, detail) ==
  [status |-> status_code, body |-> [detail |-> detail]]

\* get_gcs_uploader(): the singleton, or a 503; init_ok says whether
\* GCSUploader(...) succeeds
GetGcsUploader_RechecksSettings(gcs_uploader, settings, init_ok) ==
  IF ~settings.gcs_upload_enabled
  THEN [raised |-> TRUE, gcs_uploader |-> gcs_uploader,
        error |-> HttpError(503, "GCS uploads are not enabled. Set GCS_UPLOAD_ENABLED=true and configure GCS_BUCKET_NAME.")]
  ELSE IF settings.gcs_bucket_name \in {NoStr, Str("")}
  THEN [raised |-> TRUE, gcs_uploader |-> gcs_uploader,
        error |-> HttpError(503, "GCS_BUCKET_NAME is not configured.")]
  ELSE IF gcs_uploader # <<>>
  THEN [raised |-> FALSE, gcs_uploader |-> gcs_uploader]
  ELSE IF ~init_ok
  THEN [raised |-> TRUE, gcs_uploader |-> gcs_uploader,
        error |-> HttpError(503, "Could not initialize GCS client: bad creds")]
  ELSE [raised |-> FALSE,
        gcs_uploader |-> <<[bucket_name |-> settings.gcs_bucket_name[1],
                            default_user_id |-> settings.gcs_default_user_id]>>]

GetGcsUploader(gcs_uploader, settings, init_ok) ==
  IF gcs_uploader # <<>>
  THEN [raised |-> FALSE, gcs_uploader |-> gcs_uploader]
  ELSE IF ~settings.gcs_upload_enabled
  THEN [raised |-> TRUE, gcs_uploader |-> gcs_uploader,
        error |-> HttpError(503, "GCS uploads are not enabled. Set GCS_UPLOAD_ENABLED=true and configure GCS_BUCKET_NAME.")]
  ELSE IF settings.gcs_bucket_name \in {NoStr, Str("")}
  THEN [raised |-> TRUE, gcs_uploader |-> gcs_uploader,
        error |-> HttpError(503, "GCS_BUCKET_NAME is not configured.")]
  ELSE IF ~init_ok
  THEN [raised |-> TRUE, gcs_uploader |-> gcs_uploader,
        error |-> HttpError(503, "Could not initialize GCS client: bad creds")]
  ELSE [raised |-> FALSE,
        gcs_uploader |-> <<[bucket_name |-> settings.gcs_bucket_name[1],
                            default_user_id |-> settings.gcs_default_user_id]>>]

(***************************************************************************)
(* Calls of get_gcs_uploader() with the settings object patched between    *)
(* them, as the tests patch app.settings.                                  *)
(*   ret.settings     : the current settings                               *)
(*   ret.gcs_uploader : the module-level singleton _gcs_uploader           *)
(*   ret.calls, ret.failures, ret.constructions : the calls made so far,   *)
(*                      those that raised, those that built a GCSUploader  *)
(*   ret.last         : the last call: the singleton before it, the        *)
(*                      settings it ran under, whether the constructor     *)
(*                      could succeed, and its outcome                     *)
(***************************************************************************)
MaxCalls == 3

SingletonSettings ==
  [gcs_upload_enabled : BOOLEAN,
   gcs_bucket_name : {NoStr, Str(""), Str("bucket-a"), Str("bucket-b")},
   gcs_default_user_id : {"admin"},
   max_image_size_mb : {MaxImageSizeMb}]

InitSingleton ==
  /\ PipelineIdle
  /\ call = [fn |-> "get_gcs_uploader"]
  /\ \E s \in SingletonSettings :
       ret = [settings |-> s, gcs_uploader |-> <<>>, calls |-> 0,
              failures |-> 0, constructions |-> 0, last |-> None]

\* app.settings is replaced or one of its fields is set
PatchSettings ==
  /\ call.fn = "get_gcs_uploader"
  /\ \E s \in SingletonSettings \ {ret.settings} :
       ret' = [ret EXCEPT !.settings = s]
  /\ UNCHANGED <<pipeVars, call>>

CallGetGcsUploader ==
  /\ call.fn = "get_gcs_uploader"
  /\ ret.calls < MaxCalls
  /\ \E init_ok \in BOOLEAN :
       LET got == GetGcsUploader(ret.gcs_uploader, ret.settings, init_ok)
           constructed == ret.gcs_uploader = <<>> /\ got.gcs_uploader # <<>>
       IN ret' = [ret EXCEPT
                    !.gcs_uploader = got.gcs_uploader,
                    !.calls = @ + 1,
                    !.failures = IF got.raised THEN @ + 1 ELSE @,
                    !.constructions = IF constructed THEN @ + 1 ELSE @,
                    !.last = [before |-> ret.gcs_uploader,
                              settings |-> ret.settings,
                              init_ok |-> init_ok,
                              constructed |-> constructed,
                              outcome |-> got]]
  /\ UNCHANGED <<pipeVars, call>>

NextSingleton == PatchSettings \/ CallGetGcsUploader

SpecSingleton == InitSingleton /\ [][NextSingleton]_vars

\* `not file.content_type or not file.content_type.startswith("image/")`
NotAnImage(content_type) ==
  \/ content_type \in {NoStr, Str("")}
  \/ ~StartsWith(content_type[1], "image/")

\* the size test with >= for >
TooLarge_Geq(size_bytes, settings) ==
  size_bytes >= settings.max_image_size_mb * BytesPerMb

\* len(contents) / (1024 * 1024) > settings.max_image_size_mb
TooLarge(size_bytes, settings) ==
  size_bytes > settings.max_image_size_mb * BytesPerMb

\* base64.b64decode of the text written by _image_to_base64
B64Decode(text) ==
  IF StartsWith(text, "b64(") THEN SubSeq(text, 5, Len(text) - 1) ELSE ""

\* _decode_base64_data_url: what follows the first comma, decoded
DecodeBase64DataUrl(data_url) ==
  IF Positions(data_url, ",") = {} THEN B64Decode(data_url)
  ELSE LET first == CHOOSE i \in Positions(data_url, ",") :
                      \A j \in Positions(data_url, ",") : i <= j
       IN B64Decode(SubSeq(data_url, first + 1, Len(data_url)))

\* filename.rsplit(".", 1)[0] if "." in filename else filename, then ".png"
UploadFilename(filename) ==
  IF Positions(filename, ".") = {} THEN filename \o ".png"
  ELSE LET last == CHOOSE i \in Positions(filename, ".") :
                     \A j \in Positions(filename, ".") : j <= i
       IN SubSeq(filename, 1, last - 1) \o ".png"

\* the upload's except clause catches GCSUploadError only
CropUploadCatches_OnlyUploadError == {"GCSUploadError"}

\* except (HTTPException, GCSUploadError) as e
CropUploadCatches == {"HTTPException", "GCSUploadError"}

\* the outer try of crop_image on an HTTPException raised in its body:
\* `except HTTPException: raise` stands before `except Exception`
CropImageReraise_ConvertsAll(error) ==
  HttpError(500, "Internal server error: " \o error.body.detail)

CropImageReraise(error) == error

\* what crop_card returns to the endpoint for the uploaded bytes
CropResults ==
  {SuccessResult("data:image/png;base64,b64(png(48x68,none))", Pct(95),
                 50, 70, [w |-> 48, h |-> 68]),
   NoCardResult(50, 70),
   DecodeFailedResult}

ContentTypes == {NoStr, Str(""), Str("image/png"), Str("text/plain")}
ContentSizes == {1000, MaxImageSizeMb * BytesPerMb, MaxImageSizeMb * BytesPerMb + 1}
RequestFilenames == {NoStr, Str("card.jpg"), Str("card")}

Envs ==
  [init_ok : BOOLEAN, stored : BOOLEAN, signed_url : SignedUrls,
   date_str : Dates, uuid12 : Uuids, upload_time : UploadTimes]

\* the keyword arguments of one call of uploader.upload_image
UploadCall(size_bytes, filename, content_type, user_id, card_id) ==
  [size_bytes |-> size_bytes, filename |-> filename,
   content_type |-> content_type, user_id |-> user_id, card_id |-> card_id]

\* the `if upload:` block of crop_image on a successful crop result
CropUpload(req, settings, gcs_uploader, env) ==
  LET got == GetGcsUploader(gcs_uploader, settings, env.init_ok)
      decoded == DecodeBase64DataUrl(req.result.cropped_image)
      upload_filename == UploadFilename(StrOr(req.filename, "card.png"))
      up == GcsUploadImage(got.gcs_uploader[1], Len(decoded),
                           upload_filename, req.user_id, req.card_id,
                           env.date_str, env.uuid12,
                           IF env.stored THEN NoStr ELSE Str("GoogleCloudError"),
                           env.signed_url, env.upload_time)
      made == <<UploadCall(Len(decoded), upload_filename, "image/png",
                           req.user_id, req.card_id)>>
  IN IF got.raised
     THEN IF "HTTPException" \in CropUploadCatches
          THEN [response |-> [status |-> 200,
                              body |-> WithKey(req.result, "upload_result",
                                               [error |-> got.error.body.detail])],
                gcs_uploader |-> got.gcs_uploader, uploads |-> <<>>]
          ELSE [response |-> CropImageReraise(got.error),
                gcs_uploader |-> got.gcs_uploader, uploads |-> <<>>]
     ELSE IF up.raised
     THEN IF "GCSUploadError" \in CropUploadCatches
          THEN [response |-> [status |-> 200,
                              body |-> WithKey(req.result, "upload_result",
                                               [error |-> up.error])],
                gcs_uploader |-> got.gcs_uploader, uploads |-> made]
          ELSE [response |-> HttpError(500, "Internal server error: " \o up.error),
                gcs_uploader |-> got.gcs_uploader, uploads |-> made]
     ELSE [response |-> [status |-> 200,
                         body |-> WithKey(req.result, "upload_result", up.result)],
           gcs_uploader |-> got.gcs_uploader, uploads |-> made]

\* POST /api/crop-image; crop_calls counts the calls of
\* card_cropper.crop_card, whose return value is req.result
CropImage(req, settings, gcs_uploader, env) ==
  IF NotAnImage(req.content_type)
  THEN [response |-> CropImageReraise(
                       HttpError(400, "File must be an image (JPEG or PNG)")),
        gcs_uploader |-> gcs_uploader, uploads |-> <<>>, crop_calls |-> 0]
  ELSE IF TooLarge(req.size_bytes, settings)
  THEN [response |-> CropImageReraise(
                       HttpError(400, "File size exceeds maximum allowed size")),
        gcs_uploader |-> gcs_uploader, uploads |-> <<>>, crop_calls |-> 0]
  ELSE IF ~req.result.success
  THEN [response |->
          [status |-> 422,
           body |-> [success |-> FALSE,
                     message |-> req.result.message,
                     error |-> IF HasKey(req.result, "error")
                               THEN req.result.error
                               ELSE "Card detection failed"]],
        gcs_uploader |-> gcs_uploader, uploads |-> <<>>, crop_calls |-> 1]
  ELSE IF req.upload
  THEN WithKey(CropUpload(req, settings, gcs_uploader, env), "crop_calls", 1)
  ELSE [response |-> [status |-> 200, body |-> req.result],
        gcs_uploader |-> gcs_uploader, uploads |-> <<>>, crop_calls |-> 1]

\* POST /api/upload
UploadEndpoint(req, settings, gcs_uploader, env) ==
  LET got == GetGcsUploader(gcs_uploader, settings, env.init_ok)
      filename == StrOr(req.filename, "card.png")
      content_type == StrOr(req.content_type, "image/png")
      up == GcsUploadImage(got.gcs_uploader[1], req.size_bytes, filename,
                           req.user_id, req.card_id, env.date_str, env.uuid12,
                           IF env.stored THEN NoStr ELSE Str("GoogleCloudError"),
                           env.signed_url, env.upload_time)
      made == <<UploadCall(req.size_bytes, filename, content_type,
                           req.user_id, req.card_id)>>
  IN IF NotAnImage(req.content_type)
     THEN [response |-> HttpError(400, "File must be an image (JPEG or PNG)"),
           gcs_uploader |-> gcs_uploader, uploads |-> <<>>]
     ELSE IF TooLarge(req.size_bytes, settings)
     THEN [response |-> HttpError(400, "File size exceeds maximum allowed size"),
           gcs_uploader |-> gcs_uploader, uploads |-> <<>>]
     ELSE IF got.raised
     THEN [response |-> got.error,
           gcs_uploader |-> got.gcs_uploader, uploads |-> <<>>]
     ELSE IF up.raised
     THEN [response |-> HttpError(502, up.error),
           gcs_uploader |-> got.gcs_uploader, uploads |-> made]
     ELSE [response |-> [status |-> 200,
                         body |-> WithKey(up.result, "success", TRUE)],
           gcs_uploader |-> got.gcs_uploader, uploads |-> made]

InitApi ==
  /\ PipelineIdle
  /\ \E settings \in Settings : call = [fn |-> "api", settings |-> settings]
  /\ ret = [gcs_uploader |-> <<>>, endpoint |-> "none"]

\* one request to `endpoint`, handled
Served(endpoint, req, env, out) ==
  /\ ret' = [gcs_uploader |-> out.gcs_uploader, endpoint |-> endpoint,
             request |-> req, env |-> env, before |-> ret.gcs_uploader,
             uploads |-> out.uploads, response |-> out.response,
             crop_calls |-> IF HasKey(out, "crop_calls") THEN out.crop_calls
                            ELSE 0]
  /\ UNCHANGED <<pipeVars, call>>

ApiCropImage ==
  /\ call.fn = "api"
  /\ ret.endpoint = "none"
  /\ \E req \in [content_type : ContentTypes, size_bytes : ContentSizes,
                 filename : RequestFilenames, upload : BOOLEAN,
                 user_id : {NoStr, Str("u1")}, card_id : {NoStr, Str("c1")},
                 result : CropResults],
        env \in Envs :
       Served("crop-image", req, env,
              CropImage(req, call.settings, ret.gcs_uploader, env))

ApiUpload ==
  /\ call.fn = "api"
  /\ ret.endpoint = "none"
  /\ \E req \in [content_type : ContentTypes, size_bytes : ContentSizes,
                 filename : RequestFilenames,
                 user_id : {NoStr, Str("u1")}, card_id : {NoStr, Str("c1")}],
        env \in Envs :
       Served("upload", req, env,
              UploadEndpoint(req, call.settings, ret.gcs_uploader, env))

\* the response has gone out; only the module state outlives the request
ApiRespond ==
  /\ call.fn = "api"
  /\ ret.endpoint # "none"
  /\ ret' = [gcs_uploader |-> ret.gcs_uploader, endpoint |-> "none"]
  /\ UNCHANGED <<pipeVars, call>>

NextApi == ApiCropImage \/ ApiUpload \/ ApiRespond

SpecApi == InitApi /\ [][NextApi]_vars

(***************************************************************************)
(* Claims about crop_card (checked under Spec).                            *)
(***************************************************************************)

Returned == pc = "returned"

\* C1: crop_card never raises to its caller.  Whatever the input and at
\* whichever stage a library call fails, the invocation runs on until it
\* returns a dictionary with a boolean success and a non-empty message, and
\* success is true only if no stage failed.
C1_NeverRaises ==
  /\ pc # "raised"
  /\ ~Returned => ENABLED Next
  /\ exc # None => Returned
  /\ Returned =>
       /\ HasKey(result, "success") /\ result.success \in BOOLEAN
       /\ HasKey(result, "message") /\ Len(result.message) > 0
       /\ result.success <=>
            (exc = None /\ image # None /\ card_bbox # None
               /\ cropped_card # None)

\* an exception raised inside the orientation corrector was caught
C1_Witness ==
  /\ Returned
  /\ exc # None
  /\ exc.stage = "rotate"
  /\ result.success = FALSE

\* C2: for every input that decodes to an image the result carries a
\* confidence in [0,1] and original_size = (decoded width, height), on success
\* and on every failure outcome.
C2_ConfidenceAndSizeAlways ==
  (Returned /\ image_bytes.kind = "image") =>
     /\ HasKey(result, "confidence")
     /\ InUnit(result.confidence)
     /\ HasKey(result, "original_size")
     /\ result.original_size = <<image_bytes.w, image_bytes.h>>

\* C3: when the bytes cannot be decoded, the result is success=false with
\* the message "Failed to decode image" and no confidence, and no later
\* stage has run.
C3_DecodeFailureMessage ==
  (Returned /\ image_bytes.kind \in {"empty", "garbage"}) =>
     /\ result.success = FALSE
     /\ result.message = "Failed to decode image"
     /\ ~HasKey(result, "confidence")
     /\ image = None /\ card_bbox = None /\ cropped_card = None

\* C4: detection returns no box, with confidence 0.0, exactly when no
\* contour became a candidate (no contour at all included); crop_card then
\* returns success=false, confidence 0.0, a message beginning "No card
\* detected" and original_size, and nothing is cropped or encoded.
C4_NoCandidateResult ==
  /\ pc = "detected" =>
       /\ (candidates = <<>>) <=> (card_bbox = None)
       /\ card_bbox = None => confidence = RZero
  /\ (Returned /\ exc = None /\ image # None /\ card_bbox = None) =>
       /\ result.success = FALSE
       /\ HasKey(result, "confidence") /\ result.confidence = RZero
       /\ StartsWith(result.message, "No card detected")
       /\ result.original_size = <<image.w, image.h>>
       /\ ~HasKey(result, "cropped_image") /\ ~HasKey(result, "cropped_size")
       /\ cropped_card = None /\ apply_margin = None

C4_Witness ==
  /\ Returned
  /\ exc = None /\ image # None /\ card_bbox = None
  /\ image.w >= 50

\* C5: when extraction/rotation of the winning box yields no valid region,
\* the result is success=false with the message "Failed to extract card from
\* image" and the confidence of the detection stage.
C5_ExtractionFailureReported ==
  (Returned /\ exc # None /\ exc.stage = "rotate") =>
     /\ result.success = FALSE
     /\ result.message = "Failed to extract card from image"
     /\ HasKey(result, "confidence")
     /\ result.confidence = confidence

\* C6: a successful result holds exactly success, cropped_image, confidence,
\* message, original_size and cropped_size; cropped_image is a PNG data URL
\* of the image that was encoded, confidence is the one detection returned,
\* and cropped_size is that image's size: the crop box's size, with width
\* and height exchanged when the crop was rotated.
C6_SuccessResult ==
  (Returned /\ result.success) =>
     /\ DOMAIN result = {"success", "cropped_image", "confidence", "message",
                         "original_size", "cropped_size"}
     /\ StartsWith(result.cropped_image, "data:image/png;base64,")
     /\ result.cropped_image = ImageToBase64(cropped_card).text
     /\ result.confidence = confidence
     /\ Len(result.message) > 0
     /\ result.original_size = <<image.w, image.h>>
     /\ result.cropped_size =
          IF cropped_card.rotation = "none"
          THEN <<cropped_card.box[3] - cropped_card.box[1],
                 cropped_card.box[4] - cropped_card.box[2]>>
          ELSE <<cropped_card.box[4] - cropped_card.box[2],
                 cropped_card.box[3] - cropped_card.box[1]>>

\* a success whose crop was rotated
C6_Witness ==
  /\ Returned
  /\ result.success
  /\ cropped_card.rotation = "ccw"
  /\ result.cropped_size[1] < result.cropped_size[2]

\* C9: crop_card passes apply_margin = not is_screenshot, and the crop box
\* is the detected box shrunk by int(2% of its width) on the left and right
\* and int(2% of its height) on the top and bottom exactly when that flag is
\* true; a screenshot is cropped to the raw box.
C9_MarginIffNotScreenshot ==
  /\ apply_margin # None => (apply_margin.flag <=> ~is_screenshot)
  /\ cropped_card # None =>
       LET x == card_bbox.bbox[1]
           y == card_bbox.bbox[2]
           w == card_bbox.bbox[3]
           h == card_bbox.bbox[4]
           dx == IF is_screenshot THEN 0 ELSE (2 * w) \div 100
           dy == IF is_screenshot THEN 0 ELSE (2 * h) \div 100
       IN cropped_card.box = <<x + dx, y + dy, x + w - dx, y + h - dy>>

\* a screenshot whose box would have lost pixels to the inset
C9_Witness ==
  /\ cropped_card # None
  /\ is_screenshot
  /\ card_bbox.bbox[3] >= 100
  /\ cropped_card.box = <<card_bbox.bbox[1], card_bbox.bbox[2],
                          card_bbox.bbox[1] + card_bbox.bbox[3],
                          card_bbox.bbox[2] + card_bbox.bbox[4]>>

(***************************************************************************)
(* Claims about _extract_card_bbox (checked under SpecExtract).            *)
(***************************************************************************)
BoxEmpty(b) == b[3] <= b[1] \/ b[4] <= b[2]

\* C10: the inset box is clamped to the image (x1, y1 >= 0, x2 <= width,
\* y2 <= height); the crop box is the un-inset box (x, y, x+w, y+h) whenever
\* the clamped box is empty, and the clamped box otherwise.
C10_ClampAndFallback ==
  ret # None =>
    /\ ret.clamped[1] >= 0 /\ ret.clamped[2] >= 0
    /\ ret.clamped[3] <= call.img_w /\ ret.clamped[4] <= call.img_h
    /\ BoxEmpty(ret.clamped) =>
         ret.box = <<call.x, call.y, call.x + call.w, call.y + call.h>>
    /\ ~BoxEmpty(ret.clamped) => ret.box = ret.clamped

\* a box past the right edge: the clamped box is empty and the fallback
\* restores a box that differs from it
C10_Witness ==
  /\ ret # None
  /\ BoxEmpty(ret.clamped)
  /\ call.apply_margin
  /\ call.w >= 50
  /\ ret.box # ret.clamped

(***************************************************************************)
(* Claims about the confidence scorer (checked under SpecScore).           *)
(***************************************************************************)
\* C7: for every area_ratio, aspect_ratio and solidity in [0,1] and every
\* vertex count >= 3 each of the four sub-scores lies in [0,1], the weighted
\* sum of the four (weights 0.40, 0.30, 0.20, 0.10) lies in [0,1] without the
\* help of the final min(1.0, .), and so does the returned confidence.
C7_ScoreInUnitInterval ==
  ret # None =>
    /\ InUnit(call.area_ratio) /\ InUnit(call.aspect_ratio)
    /\ InUnit(call.solidity) /\ call.num_vertices >= 3
    /\ InUnit(ret.aspect_score) /\ InUnit(ret.area_score)
    /\ InUnit(ret.vertex_score) /\ InUnit(ret.solidity_score)
    /\ InUnit(ret.confidence)
    /\ InUnit(ret.returned)
    /\ REq(ret.returned, ret.confidence)

\* a candidate in the top band of all four sub-scores reaches exactly 1
C7_Witness ==
  /\ ret # None
  /\ REq(ret.returned, ROne)
  /\ call.num_vertices = 4

\* The band tables as the specification words them.  A band is an interval
\* of hundredths with open or closed ends and the score (in hundredths) it
\* gives; a value in no band gets the table's "else" score.
Band(lo, loIn, hi, hiIn, score) ==
  [lo |-> lo, loIn |-> loIn, hi |-> hi, hiIn |-> hiIn, score |-> score]

InBand(x, b) ==
  /\ IF b.loIn THEN RLe(Pct(b.lo), x) ELSE RLt(Pct(b.lo), x)
  /\ IF b.hiIn THEN RLe(x, Pct(b.hi)) ELSE RLt(x, Pct(b.hi))

BandsHit(x, bands) == {b \in bands : InBand(x, b)}

BandScore(x, bands, else) ==
  IF BandsHit(x, bands) = {} THEN else
  ELSE Pct((CHOOSE b \in BandsHit(x, bands) : TRUE).score)

\* d < 0.08, else d < 0.15, else d < 0.20, else d < 0.30
C8_AspectBands ==
  {Band(0, TRUE, 8, FALSE, 100), Band(8, TRUE, 15, FALSE, 95),
   Band(15, TRUE, 20, FALSE, 85), Band(20, TRUE, 30, FALSE, 75)}

\* [0.40,0.70], (0.70,0.95], [0.30,0.40), [0.15,0.30), [0.05,0.15)
C8_AreaBands ==
  {Band(40, TRUE, 70, TRUE, 100), Band(70, FALSE, 95, TRUE, 98),
   Band(30, TRUE, 40, FALSE, 95), Band(15, TRUE, 30, FALSE, 90),
   Band(5, TRUE, 15, FALSE, 85)}

\* > 0.95, else > 0.90, else > 0.85 (solidity is at most 1)
C8_SolidityBands ==
  {Band(95, FALSE, 100, TRUE, 100), Band(90, FALSE, 95, TRUE, 95),
   Band(85, FALSE, 90, TRUE, 90)}

C8_VertexTable(n) ==
  CASE n = 4 -> Pct(100) [] n = 5 -> Pct(95) [] n = 6 -> Pct(85)
    [] n = 7 -> Pct(75) [] OTHER -> Pct(65)

C8_Expected ==
  LET A == BandScore(AspectDiff(call.aspect_ratio), C8_AspectBands, Pct(50))
      R == BandScore(call.area_ratio, C8_AreaBands, Pct(75))
      V == C8_VertexTable(call.num_vertices)
      S == BandScore(call.solidity, C8_SolidityBands,
                     RMax(Pct(70), call.solidity))
  IN Rat(40 * A.n * R.d * V.d * S.d + 30 * R.n * A.d * V.d * S.d
         + 20 * V.n * A.d * R.d * S.d + 10 * S.n * A.d * R.d * V.d,
         100 * A.d * R.d * V.d * S.d)

\* C8: the score is 0.40*A + 0.30*R + 0.20*V + 0.10*S with A, R, V, S read
\* from the band tables of the specification, and no argument (band edges
\* included) lies in two bands of a table.
C8_ScoreIsBandTable ==
  ret # None =>
    /\ REq(ret.returned, C8_Expected)
    /\ Cardinality(BandsHit(AspectDiff(call.aspect_ratio), C8_AspectBands)) <= 1
    /\ Cardinality(BandsHit(call.area_ratio, C8_AreaBands)) <= 1
    /\ Cardinality(BandsHit(call.solidity, C8_SolidityBands)) <= 1

\* a call with every argument exactly on a band edge
C8_Witness ==
  /\ ret # None
  /\ REq(call.area_ratio, Pct(95))
  /\ REq(AspectDiff(call.aspect_ratio), Pct(8))
  /\ REq(call.solidity, Pct(95))
  /\ call.num_vertices = 7

(***************************************************************************)
(* Claims about the orientation corrector (checked under SpecOrient).      *)
(***************************************************************************)
OrientDone == call.fn = "orient" /\ ret # None
\* the crop's size before any rotation (the box lies inside the image)
OrientCropW == ret.box[3] - ret.box[1]
OrientCropH == ret.box[4] - ret.box[2]
\* _rotate_to_upright was called
OrientApplied == ret.raised \/ ret.rotation # "none"
\* max(red_count, 1.5 * blue_count)
SideScore(red, blue) == RMax(Rat(red, 1), RMul(Rat(3, 2), Rat(blue, 1)))
LeftScore == SideScore(call.counts.left_red, call.counts.left_blue)
RightScore == SideScore(call.counts.right_red, call.counts.right_blue)

C12_OrientationLaw ==
  OrientDone /\ OrientCropW > OrientCropH /\ ~ret.raised =>
    /\ ret.w = OrientCropH /\ ret.h = OrientCropW
    /\ ret.mirrored.rotation \in {"cw", "ccw"}
    /\ ret.mirrored.rotation # ret.rotation

\* C12 amended: on a landscape crop W x H the corrector raises iff its
\* strips are int(0.12*W) = 0 pixels wide (on the mirrored crop as well);
\* otherwise the output is H x W, the mirrored crop is rotated in the
\* opposite direction when the two scores differ, and both are rotated
\* clockwise when the two scores are equal.
C12_OrientationLawAmended ==
  OrientDone /\ OrientCropW > OrientCropH =>
    /\ ret.raised <=> (OrientCropW * 12) \div 100 = 0
    /\ ret.mirrored.raised = ret.raised
    /\ ~ret.raised =>
         /\ ret.w = OrientCropH /\ ret.h = OrientCropW
         /\ ret.mirrored.w = OrientCropH /\ ret.mirrored.h = OrientCropW
         /\ {ret.rotation, ret.mirrored.rotation} \subseteq {"cw", "ccw"}
         /\ ~REq(LeftScore, RightScore) =>
              ret.mirrored.rotation # ret.rotation
         /\ REq(LeftScore, RightScore) =>
              ret.rotation = "cw" /\ ret.mirrored.rotation = "cw"

\* equal non-zero scores: 20 x 12 becomes 12 x 20, clockwise both ways
C12_Witness ==
  /\ OrientDone
  /\ OrientCropW = 20 /\ OrientCropH = 12
  /\ call.counts = [left_red |-> 1, left_blue |-> 0,
                    right_red |-> 1, right_blue |-> 0]
  /\ ret.w = 12 /\ ret.h = 20
  /\ ret.rotation = "cw" /\ ret.mirrored.rotation = "cw"

(***************************************************************************)
(* Claims about whole scenes (checked under SpecScene).                    *)
(***************************************************************************)
SceneDone == call.fn = "crop" /\ ret # None

\* a 1000 x 1400 image, not a screenshot, whose only contour is the outline
\* of a filled 600 x 840 rectangle at (200, 280): 4 vertices, solidity 1
C13_Case ==
  /\ SceneDone
  /\ call.kind = "contours"
  /\ call.img_w = 1000 /\ call.img_h = 1400
  /\ ~call.is_screenshot
  /\ call.contours = <<[bbox |-> <<200, 280, 600, 840>>, area |-> 599 * 839,
                        hull_area |-> 599 * 839, num_vertices |-> 4]>>

\* C13 as stated: the scenario succeeds with confidence >= 0.85 and
\* cropped_size exactly 600 x 840, unrotated.
C13_Scenario ==
  C13_Case =>
    /\ ret.result.success
    /\ RLe(Pct(85), ret.result.confidence)
    /\ ret.result.cropped_size = <<600, 840>>
    /\ ret.result.cropped_image = "data:image/png;base64,b64(png(600x840,none))"

\* C13 amended: the scenario succeeds with confidence >= 0.85 and
\* cropped_size exactly 576 x 808 (the box inset by int(0.02*600) = 12 and
\* int(0.02*840) = 16 pixels on each side), unrotated.
C13_ScenarioAmended ==
  C13_Case =>
    /\ ret.result.success
    /\ RLe(Pct(85), ret.result.confidence)
    /\ ret.result.original_size = <<1000, 1400>>
    /\ ret.result.cropped_size = <<576, 808>>
    /\ ret.result.cropped_image = "data:image/png;base64,b64(png(576x808,none))"

C13_Witness == C13_Case /\ ret.result.success

\* C14: a single 4-vertex contour that covers the whole frame of an image
\* of aspect 5:7 is accepted and crop_card reports confidence >= 0.9.
C14_FullFrameAccepted ==
  /\ SceneDone
  /\ call.kind = "contours"
  /\ 7 * call.img_w = 5 * call.img_h
  /\ Len(call.contours) = 1
  /\ call.contours[1].bbox = <<0, 0, call.img_w, call.img_h>>
  /\ call.contours[1].area = (call.img_w - 1) * (call.img_h - 1)
  /\ call.contours[1].num_vertices = 4
  => /\ ret.result.success
     /\ RLe(Pct(90), ret.result.confidence)

\* C15: every uniform-colour image gets success = false, confidence 0.0
\* and the "No card detected" message.
C15_UniformNoCard ==
  SceneDone /\ call.kind = "uniform" =>
    /\ ret.result.success = FALSE
    /\ HasKey(ret.result, "confidence")
    /\ ret.result.confidence = RZero
    /\ StartsWith(ret.result.message, "No card detected")

(***************************************************************************)
(* Claims about repeated extraction (checked under SpecExtract).           *)
(***************************************************************************)
\* the box of the call is one detection can return: inside the image, with
\* positive width and height
DetectedBox ==
  /\ call.x >= 0 /\ call.y >= 0 /\ call.w >= 1 /\ call.h >= 1
  /\ call.x + call.w <= call.img_w /\ call.y + call.h <= call.img_h

ExtractedTwice ==
  call.fn = "extract" /\ ret # None /\ DetectedBox /\ ~ret.raised

\* the second output is the first output, pixel for pixel: a slice of the
\* first output with the first output's size, not turned
SameAsFirst ==
  /\ ~ret.again.turned
  /\ ret.again.w = ret.w /\ ret.again.h = ret.h

\* C16 as stated: handing the cropped output back with the same detected
\* box and flag yields that output again.
C16_Idempotent == ExtractedTwice => SameAsFirst

\* C16 amended: handing the cropped output back with the same detected box
\* (x, y, w, h) and flag yields that output again exactly when x = 0, y = 0,
\* both margin insets are 0 and the crop was not turned (w <= h); in every
\* other case the box, whose coordinates refer to the original image, cuts
\* the output again.
C16_IdempotentAmended ==
  ExtractedTwice =>
    (SameAsFirst <=>
       /\ call.x = 0 /\ call.y = 0
       /\ (call.apply_margin => (2 * call.w) \div 100 = 0
                                  /\ (2 * call.h) \div 100 = 0)
       /\ call.w <= call.h)

\* a 50 x 75 box at the origin of a 50 x 75 image, without margin
C16_Witness ==
  /\ ExtractedTwice
  /\ call.x = 0 /\ call.y = 0 /\ call.w = 50 /\ call.h = 75
  /\ ~call.apply_margin
  /\ SameAsFirst

(***************************************************************************)
(* Claims about concurrent invocations (checked under SpecConc).           *)
(***************************************************************************)
\* what invocation t returns when it runs alone on its image
AloneResult(t) ==
  CropCard(call.args[t].img_w, call.args[t].img_h, call.args[t].is_screenshot,
           call.args[t].contours, call.args[t].counts)

\* C17: under every interleaving of two invocations on the shared instance
\* each invocation returns the result it returns when run alone, and the
\* candidate lists are call-local: no invocation writes the instance.
C17_NoInterference ==
  call.fn = "concurrent" =>
    /\ \A t \in Threads :
         ret.frames[t].pc = "returned" => ret.frames[t].result = AloneResult(t)
    /\ ret.store[0] = <<>>

\* both invocations ran overlapped and returned different successful crops
C17_Witness ==
  /\ call.fn = "concurrent"
  /\ ret.overlap
  /\ \A t \in Threads : ret.frames[t].pc = "returned"
  /\ ret.frames[1].result.success /\ ret.frames[2].result.success
  /\ ret.frames[1].result # ret.frames[2].result

(***************************************************************************)
(* Claims about GCSUploader.upload_image (checked under SpecUpload).       *)
(***************************************************************************)
\* C20: when a card_id is supplied, the blob path is
\* "<user_id or default_user_id>/<date>/<card_id>_<filename>", the returned
\* card_id is the supplied card_id, size_bytes is the number of bytes
\* uploaded and bucket is the configured bucket.
C20_CardIdReturned ==
  /\ call.fn = "upload_image"
  /\ ret # None
  /\ call.card_id \notin {NoStr, Str("")}
  /\ ~ret.raised
  => /\ \E d \in Dates :
          ret.result.blob_path =
            StrOr(call.user_id, call.uploader.default_user_id) \o "/" \o d
              \o "/" \o call.card_id[1] \o "_" \o call.filename
     /\ ret.result.card_id = call.card_id[1]
     /\ ret.result.size_bytes = call.size_bytes
     /\ ret.result.bucket = call.uploader.bucket_name

(***************************************************************************)
(* Claims about the endpoints (checked under SpecApi).                     *)
(***************************************************************************)
\* the request carries an image content type and is not above the limit
RequestAccepted ==
  /\ ret.request.content_type = Str("image/png")
  /\ ret.request.size_bytes <= 10 * 1024 * 1024

\* no uploader could be had for the request: none was cached and GCS is
\* disabled, the bucket is unset, or the client failed to initialise
UploaderUnavailable ==
  /\ ret.before = <<>>
  /\ \/ ~call.settings.gcs_upload_enabled
     \/ call.settings.gcs_bucket_name = NoStr
     \/ ~ret.env.init_ok

UploadFailed == UploaderUnavailable \/ ~ret.env.stored

CropSucceeded ==
  /\ call.fn = "api"
  /\ ret.endpoint = "crop-image"
  /\ RequestAccepted
  /\ ret.request.result.success

\* C18: when the crop succeeded the response is 200 with the complete crop
\* result; with upload=true a failed upload (GCS disabled, bucket missing,
\* initialisation failure, GCSUploadError) only adds upload_result =
\* {"error": ...}; with upload=false there is no upload_result.
C18_UploadFailureNonFatal ==
  CropSucceeded =>
    /\ ret.response.status = 200
    /\ \A k \in DOMAIN ret.request.result :
         /\ HasKey(ret.response.body, k)
         /\ ret.response.body[k] = ret.request.result[k]
    /\ ret.request.upload /\ UploadFailed =>
         /\ HasKey(ret.response.body, "upload_result")
         /\ DOMAIN ret.response.body.upload_result = {"error"}
    /\ ret.request.upload /\ ~UploadFailed =>
         /\ HasKey(ret.response.body, "upload_result")
         /\ HasKey(ret.response.body.upload_result, "blob_path")
    /\ ~ret.request.upload => ~HasKey(ret.response.body, "upload_result")

\* upload_image raised GCSUploadError on an uploader that was there
C18_Witness ==
  /\ CropSucceeded
  /\ ret.request.upload
  /\ ~UploaderUnavailable /\ ~ret.env.stored
  /\ ret.response.status = 200
  /\ StartsWith(ret.response.body.upload_result.error, "Upload failed")

UploadServed == call.fn = "api" /\ ret.endpoint = "upload"

\* the status the fixed order of checks gives the request
C19_ExpectedStatus ==
  IF ret.request.content_type # Str("image/png") THEN 400
  ELSE IF ret.request.size_bytes > 10 * 1024 * 1024 THEN 400
  ELSE IF UploaderUnavailable THEN 503
  ELSE IF ~ret.env.stored THEN 502
  ELSE 200

\* C19: POST /api/upload stops at the first failing check, in the order
\* content type (400), size (400), uploader (503), upload (502), else 200
\* with success=true and the metadata; upload_image is called only when
\* the earlier checks passed, with the request's user_id and card_id.
C19_UploadCheckOrder ==
  UploadServed =>
    /\ ret.response.status = C19_ExpectedStatus
    /\ ret.response.status = 200 =>
         /\ ret.response.body.success = TRUE
         /\ {"blob_path", "bucket", "public_url", "signed_url", "size_bytes",
             "uploaded_at", "card_id"} \subseteq DOMAIN ret.response.body
    /\ ret.response.status \in {400, 503} =>
         ret.uploads = <<>>
    /\ ret.response.status = 400 => ret.gcs_uploader = ret.before
    /\ ret.response.status \in {502, 200} =>
         /\ Len(ret.uploads) = 1
         /\ ret.uploads[1].user_id = ret.request.user_id
         /\ ret.uploads[1].card_id = ret.request.card_id

\* the uploader was there and upload_image raised: 502 after one call
C19_Witness ==
  /\ UploadServed
  /\ ret.response.status = 502
  /\ Len(ret.uploads) = 1
  /\ ret.uploads[1].user_id = Str("u1")
  /\ ret.uploads[1].card_id = Str("c1")

\* C21: in upload_image a failure to generate the signed URL is not fatal:
\* the call still returns a result whose signed_url is None and whose
\* public_url is https://storage.googleapis.com/<bucket>/<blob_path>; any
\* exception raised by the blob upload itself comes out as a GCSUploadError
\* ("Upload failed: ..." or "Unexpected upload error: ...") and no result
\* is returned.
C21_SignedUrlFailureNonFatal ==
  /\ call.fn = "upload_image"
  /\ ret # None
  => /\ ret.env.upload_exc = NoStr =>
          /\ ~ret.raised
          /\ ret.result.public_url =
               "https://storage.googleapis.com/" \o call.uploader.bucket_name
                 \o "/" \o ret.result.blob_path
          /\ ret.env.sign_exc # NoStr => ret.result.signed_url = NoStr
          /\ ret.env.sign_exc = NoStr => ret.result.signed_url # NoStr
     /\ ret.env.upload_exc # NoStr =>
          /\ ret.raised
          /\ ~HasKey(ret, "result")
          /\ \/ StartsWith(ret.error, "Upload failed: ")
             \/ StartsWith(ret.error, "Unexpected upload error: ")

C21_Witness ==
  /\ call.fn = "upload_image"
  /\ ret # None
  /\ ~ret.raised
  /\ ret.env.sign_exc # NoStr
  /\ ret.result.signed_url = NoStr

(***************************************************************************)
(* Claims about GCSUploader.delete_image and check_connection (checked     *)
(* under SpecUpload).                                                      *)
(***************************************************************************)
\* C22: delete_image never raises: it returns True when the blob delete
\* succeeds and False whenever the delete fails, whatever the kind of
\* failure, as check_connection does.
C22_DeleteNeverRaises ==
  /\ call.fn \in {"delete_image", "check_connection"}
  /\ ret # None
  => /\ ~ret.raised
     /\ call.fn = "delete_image" => ret.value = (ret.env.delete_exc = NoStr)
     /\ call.fn = "check_connection" => ret.value = (ret.env.reload_exc = NoStr)

(***************************************************************************)
(* Claims about the candidate loop of _detect_card_contour_advanced        *)
(* (checked under SpecScene, on images with a single contour).             *)
(***************************************************************************)
\* the contour of the scene was handed to the scorer: detection returned a
\* box, so crop_card did not return the "No card detected" result
SceneScored ==
  /\ SceneDone
  /\ call.kind = "contours"
  /\ Len(ret.contours) = 1
  /\ ret.result # NoCardResult(call.img_w, call.img_h)

\* the three bounds of the claim on the contour of the scene
SceneContourInBounds ==
  LET c == ret.contours[1]
      image_area == call.img_w * call.img_h
  IN /\ RLe(MIN_CARD_AREA_RATIO, Rat(c.area, image_area))
     /\ RLe(Rat(c.area, image_area), MAX_CARD_AREA_RATIO)
     /\ RLe(AspectDiff(Rat(Min(c.bbox[3], c.bbox[4]),
                           Max(c.bbox[3], c.bbox[4]))),
            ASPECT_RATIO_TOLERANCE)
     /\ c.num_vertices \in 4..12

C24_FirstMaximumReturned ==
  pc = "detected" /\ candidates # <<>> =>
    \E i \in 1..Len(candidates) :
      /\ card_bbox # None
      /\ card_bbox.bbox = candidates[i].bbox
      /\ confidence = candidates[i].confidence
      /\ \A j \in 1..Len(candidates) :
           RLe(candidates[j].confidence, candidates[i].confidence)
      /\ \A j \in 1..(i - 1) :
           RLt(candidates[j].confidence, candidates[i].confidence)

C24_Witness ==
  /\ pc = "detected"
  /\ Len(candidates) = 2
  /\ candidates[1].confidence = candidates[2].confidence
  /\ candidates[1].bbox # candidates[2].bbox
  /\ card_bbox.bbox = candidates[1].bbox

\* C25: detection uses exactly one strategy, chosen in priority order: the
\* wood strategy whenever the wood-coloured fraction of the image is
\* strictly above 15% (even if the image is also dark); otherwise the dark
\* strategy exactly when the mean luminance is below 100; otherwise the
\* light strategy.  The screenshot flag plays no part in the choice.
C25_StrategyPriority ==
  pc = "segmented" =>
    /\ combined # None
    /\ combined.strategy \in {"wood", "dark", "light"}
    /\ combined.strategy = "wood" <=> RLt(Pct(15), combined.wood_ratio)
    /\ combined.strategy = "dark" <=>
         /\ RLe(combined.wood_ratio, Pct(15))
         /\ combined.mean_brightness < 100
    /\ combined.strategy = "light" <=>
         /\ RLe(combined.wood_ratio, Pct(15))
         /\ combined.mean_brightness >= 100

C25_Witness ==
  /\ pc = "segmented"
  /\ combined.strategy = "wood"
  /\ combined.mean_brightness < 100
  /\ is_screenshot

(***************************************************************************)
(* Claims about get_gcs_uploader (checked under SpecSingleton).            *)
(***************************************************************************)
\* the settings allow an upload: enabled and a non-empty bucket name
Configured(settings) ==
  /\ settings.gcs_upload_enabled
  /\ settings.gcs_bucket_name \notin {NoStr, Str("")}

\* C26: over any sequence of get_gcs_uploader calls and settings changes
\* between them, a GCSUploader is constructed only when uploads are enabled
\* and a bucket is set; a failed call answers 503 and leaves the cache
\* unset, so that a later call tries again; and after the first successful
\* construction every later call returns that same instance, constructs no
\* other and does not look at the settings, even if uploads are disabled.
C26_SingletonLaw ==
  call.fn = "get_gcs_uploader" =>
    /\ ret.constructions <= 1
    /\ ret.constructions = 0 <=> ret.gcs_uploader = <<>>
    /\ ret.last # None =>
         LET l == ret.last IN
         /\ l.constructed => Configured(l.settings)
         /\ l.outcome.raised =>
              /\ l.outcome.error.status = 503
              /\ ret.gcs_uploader = <<>>
         /\ l.before = <<>> /\ Configured(l.settings) /\ l.init_ok =>
              /\ ~l.outcome.raised
              /\ l.constructed
              /\ ret.gcs_uploader =
                   <<[bucket_name |-> l.settings.gcs_bucket_name[1],
                      default_user_id |-> l.settings.gcs_default_user_id]>>
         /\ l.before # <<>> =>
              /\ ~l.outcome.raised
              /\ ~l.constructed
              /\ l.outcome.gcs_uploader = l.before
              /\ ret.gcs_uploader = l.before

C26_Witness ==
  /\ call.fn = "get_gcs_uploader"
  /\ ret.failures >= 1
  /\ ret.constructions = 1
  /\ ret.last # None
  /\ ret.last.before # <<>>
  /\ ~ret.last.settings.gcs_upload_enabled
  /\ ret.last.settings.gcs_bucket_name # Str(ret.gcs_uploader[1].bucket_name)
  /\ ~ret.last.outcome.raised

(***************************************************************************)
(* Claims about the order of steps of POST /api/crop-image (checked under  *)
(* SpecApi).                                                               *)
(***************************************************************************)
\* the two checks of the request that precede processing
CropTypeOk ==
  /\ ret.request.content_type \notin {NoStr, Str("")}
  /\ StartsWith(ret.request.content_type[1], "image/")
CropSizeOk == ret.request.size_bytes <= 10 * 1024 * 1024

\* C27: on POST /api/crop-image crop_card is invoked only after the
\* content-type check and the size check have both passed (either failing
\* gives 400 and no processing); an unsuccessful crop result gives 422 with
\* a body of exactly success = false, message and error (error defaulting
\* to "Card detection failed"; confidence and original_size are not
\* forwarded); a GCS upload is attempted only when upload = true and the
\* crop succeeded; an HTTPException raised in the handler keeps its status
\* and no response is a 500.
C27_CropImageStepOrder ==
  call.fn = "api" /\ ret.endpoint = "crop-image" =>
    /\ ret.crop_calls = 1 => CropTypeOk /\ CropSizeOk
    /\ ~(CropTypeOk /\ CropSizeOk) =>
         /\ ret.response.status = 400
         /\ DOMAIN ret.response.body = {"detail"}
         /\ ret.crop_calls = 0
         /\ ret.uploads = <<>>
         /\ ret.gcs_uploader = ret.before
    /\ CropTypeOk /\ CropSizeOk /\ ~ret.request.result.success =>
         /\ ret.response.status = 422
         /\ DOMAIN ret.response.body = {"success", "message", "error"}
         /\ ret.response.body.success = FALSE
         /\ ret.response.body.message = ret.request.result.message
         /\ ret.response.body.error =
              IF "error" \in DOMAIN ret.request.result
              THEN ret.request.result.error
              ELSE "Card detection failed"
    /\ ret.uploads # <<>> \/ ret.gcs_uploader # ret.before =>
         /\ ret.request.upload
         /\ ret.request.result.success
         /\ ret.crop_calls = 1
    /\ ret.response.status \in {200, 400, 422}

C27_Witness ==
  /\ call.fn = "api"
  /\ ret.endpoint = "crop-image"
  /\ ret.request.upload
  /\ CropTypeOk /\ CropSizeOk
  /\ "confidence" \in DOMAIN ret.request.result
  /\ ret.response.status = 422
  /\ ret.response.body.error = "Card detection failed"

(***************************************************************************)
(* Claims about the shape of successful results (checked under Spec).      *)
(***************************************************************************)
\* the size of the region cut out of the image, before any rotation
CutW == cropped_card.box[3] - cropped_card.box[1]
CutH == cropped_card.box[4] - cropped_card.box[2]

\* C28: every successful crop_card result is portrait or square, cropped
\* width <= cropped height: a crop wider than tall is always rotated by a
\* quarter turn and a crop with width <= height is never rotated; and the
\* cropped size never exceeds the detected box's size, width and height
\* exchanged when the crop was rotated.
C28_PortraitOrSquare ==
  Returned /\ result.success =>
    /\ result.cropped_size[1] <= result.cropped_size[2]
    /\ result.cropped_size[1] >= 1
    /\ CutW > CutH =>
         /\ cropped_card.rotation \in {"cw", "ccw"}
         /\ result.cropped_size[1] <= card_bbox.bbox[4]
         /\ result.cropped_size[2] <= card_bbox.bbox[3]
    /\ CutW <= CutH =>
         /\ cropped_card.rotation = "none"
         /\ result.cropped_size[1] <= card_bbox.bbox[3]
         /\ result.cropped_size[2] <= card_bbox.bbox[4]

C28_Witness ==
  /\ Returned
  /\ result.success
  /\ CutW > CutH
  /\ cropped_card.rotation = "cw"
  /\ apply_margin.flag
  /\ result.cropped_size[2] < card_bbox.bbox[3]

\* the inset of the detected box by the margin of the call, before clamping
InsetBox ==
  LET x == card_bbox.bbox[1]
      y == card_bbox.bbox[2]
      w == card_bbox.bbox[3]
      h == card_bbox.bbox[4]
      margin_x == IF apply_margin.flag THEN (2 * w) \div 100 ELSE 0
      margin_y == IF apply_margin.flag THEN (2 * h) \div 100 ELSE 0
  IN <<x + margin_x, y + margin_y, x + w - margin_x, y + h - margin_y>>

\* C29: for every box detection produces (x, y >= 0, w, h >= 1, x + w <=
\* image width, y + h <= image height), with or without margin, the inset
\* box satisfies 0 <= x1 < x2 <= width and 0 <= y1 < y2 <= height; so the
\* fallback to the un-inset box is never taken, _extract_card_bbox never
\* returns None, and crop_card never produces the "Failed to extract card
\* from image" result.
C29_InsetNeverEmpty ==
  /\ pc = "extracting" =>
       /\ card_bbox.bbox[1] >= 0 /\ card_bbox.bbox[2] >= 0
       /\ card_bbox.bbox[3] >= 1 /\ card_bbox.bbox[4] >= 1
       /\ card_bbox.bbox[1] + card_bbox.bbox[3] <= image.w
       /\ card_bbox.bbox[2] + card_bbox.bbox[4] <= image.h
       /\ 0 <= InsetBox[1] /\ InsetBox[1] < InsetBox[3] /\ InsetBox[3] <= image.w
       /\ 0 <= InsetBox[2] /\ InsetBox[2] < InsetBox[4] /\ InsetBox[4] <= image.h
       /\ ClampedBox(image.w, image.h, card_bbox.bbox, apply_margin.flag) = InsetBox
       /\ CropBox(image.w, image.h, card_bbox.bbox, apply_margin.flag) = InsetBox
  /\ pc \in {"extracted", "returned"} /\ cropped_card # None =>
       /\ cropped_card.box = InsetBox
       /\ cropped_card.w >= 1 /\ cropped_card.h >= 1
  /\ Returned => result.message # "Failed to extract card from image"

C29_Witness ==
  /\ Returned
  /\ cropped_card # None
  /\ apply_margin.flag
  /\ cropped_card.box[1] > card_bbox.bbox[1]
  /\ cropped_card.box[4] < card_bbox.bbox[2] + card_bbox.bbox[4]

(***************************************************************************)
(* IEEE-754 binary64 arithmetic, as Python's float uses it, for the sums   *)
(* of the confidence scorer.  A natural number is a sequence of limbs in   *)
(* base 2^13, least significant first, without leading zero limbs; a       *)
(* double is m * 2^e with a mantissa m of exactly 53 bits (or m = 0).      *)
(* Every value of the scorer is far from the overflow and the subnormal    *)
(* range, so the exponent is unbounded here.  Round-to-nearest, ties to    *)
(* even.  An intermediate result is bound through a singleton set          *)
(* (CHOOSE r \in {f(x) : x \in {e}} : TRUE is f(e)) so that it is computed   *)
(* once.                                                                   *)
(***************************************************************************)
LimbBits == 13
LimbBase == 2 ^ LimbBits
MantissaBits == 53

Limb(a, i) == IF i <= Len(a) THEN a[i] ELSE 0

RECURSIVE NNorm(_)
NNorm(a) ==
  IF a = <<>> THEN <<>>
  ELSE IF a[Len(a)] = 0 THEN NNorm(SubSeq(a, 1, Len(a) - 1))
  ELSE a

RECURSIVE NFromInt(_)
NFromInt(n) ==
  IF n = 0 THEN <<>> ELSE <<n % LimbBase>> \o NFromInt(n \div LimbBase)

RECURSIVE NAddC(_, _, _, _)
NAddC(a, b, i, carry) ==
  IF i > Len(a) /\ i > Len(b)
  THEN IF carry = 0 THEN <<>> ELSE <<carry>>
  ELSE LET s == Limb(a, i) + Limb(b, i) + carry
       IN <<s % LimbBase>> \o NAddC(a, b, i + 1, s \div LimbBase)

NAdd(a, b) == CHOOSE r \in {NAddC(x, y, 1, 0) : x \in {a}, y \in {b}} : TRUE

\* a - b for a >= b
RECURSIVE NSubC(_, _, _, _)
NSubC(a, b, i, borrow) ==
  IF i > Len(a) THEN <<>>
  ELSE LET s == Limb(a, i) - Limb(b, i) - borrow
       IN IF s < 0 THEN <<s + LimbBase>> \o NSubC(a, b, i + 1, 1)
          ELSE <<s>> \o NSubC(a, b, i + 1, 0)

NSub(a, b) == CHOOSE r \in {NNorm(NSubC(x, y, 1, 0)) : x \in {a}, y \in {b}} : TRUE

\* a < b, decided at the most significant limb where they differ
RECURSIVE NLessFrom(_, _, _)
NLessFrom(a, b, i) ==
  IF i = 0 THEN FALSE
  ELSE IF a[i] # b[i] THEN a[i] < b[i]
  ELSE NLessFrom(a, b, i - 1)

NLess(a, b) ==
  \E x \in {a}, y \in {b} :
    IF Len(x) # Len(y) THEN Len(x) < Len(y) ELSE NLessFrom(x, y, Len(x))

\* a * s for 0 <= s <= 2^13
RECURSIVE NMulSmallC(_, _, _, _)
NMulSmallC(a, s, i, carry) ==
  IF i > Len(a) THEN NFromInt(carry)
  ELSE LET p == a[i] * s + carry
       IN <<p % LimbBase>> \o NMulSmallC(a, s, i + 1, p \div LimbBase)

NMulSmall(a, s) == CHOOSE r \in {NNorm(NMulSmallC(x, s, 1, 0)) : x \in {a}} : TRUE

\* the sum of a[i] * b[k + 1 - i] over the limbs of column k
RECURSIVE ColSum(_, _, _, _)
ColSum(a, b, k, i) ==
  IF i > Len(a) \/ i > k THEN 0
  ELSE Limb(a, i) * Limb(b, k + 1 - i) + ColSum(a, b, k, i + 1)

RECURSIVE NMulC(_, _, _, _)
NMulC(a, b, k, carry) ==
  IF k > Len(a) + Len(b) THEN <<>>
  ELSE LET s == ColSum(a, b, k, 1) + carry
       IN <<s % LimbBase>> \o NMulC(a, b, k + 1, s \div LimbBase)

NMul(a, b) == CHOOSE r \in {NNorm(NMulC(x, y, 1, 0)) : x \in {a}, y \in {b}} : TRUE

\* floor(a / d) for 1 <= d <= 2^13, from the most significant limb down
RECURSIVE NDivSmallC(_, _, _, _)
NDivSmallC(a, d, i, rem) ==
  IF i = 0 THEN <<>>
  ELSE LET cur == rem * LimbBase + a[i]
       IN NDivSmallC(a, d, i - 1, cur % d) \o <<cur \div d>>

NDivSmall(a, d) == CHOOSE r \in {NNorm(NDivSmallC(x, d, Len(x), 0)) : x \in {a}} : TRUE

\* a * 2^n and floor(a / 2^n)
NShl(a, n) ==
  IF a = <<>> THEN <<>>
  ELSE [i \in 1..(n \div LimbBits) |-> 0] \o NMulSmall(a, 2 ^ (n % LimbBits))

NShr(a, n) ==
  IF n \div LimbBits >= Len(a) THEN <<>>
  ELSE NDivSmall(SubSeq(a, n \div LimbBits + 1, Len(a)), 2 ^ (n % LimbBits))

RECURSIVE IntBitLen(_)
IntBitLen(n) == IF n = 0 THEN 0 ELSE 1 + IntBitLen(n \div 2)

NBitLen(a) ==
  IF a = <<>> THEN 0 ELSE (Len(a) - 1) * LimbBits + IntBitLen(a[Len(a)])

NOdd(a) == a # <<>> /\ a[1] % 2 = 1

DZero == [m |-> <<>>, e |-> 0]

\* n rounded to the MantissaBits bits above its lowest `drop` bits, ties
\* to even (drop >= 1)
NRoundOff(n, drop) ==
  CHOOSE q2 \in
    {IF NLess(NShl(<<1>>, drop - 1), r) \/ (r = NShl(<<1>>, drop - 1) /\ NOdd(q))
     THEN NAdd(q, <<1>>) ELSE q :
       q \in {NShr(n, drop)}, r \in {NSub(n, NShl(NShr(n, drop), drop))}} : TRUE

\* the double nearest to n * 2^e, ties to even
DRound(n, e) ==
  CHOOSE d \in
    {IF v = <<>> THEN DZero
     ELSE IF NBitLen(v) <= MantissaBits
     THEN [m |-> NShl(v, MantissaBits - NBitLen(v)),
           e |-> e + NBitLen(v) - MantissaBits]
     ELSE CHOOSE d2 \in
       {IF NBitLen(q2) > MantissaBits
        THEN [m |-> NShr(q2, 1), e |-> e + NBitLen(v) - MantissaBits + 1]
        ELSE [m |-> q2, e |-> e + NBitLen(v) - MantissaBits] :
          q2 \in {NRoundOff(v, NBitLen(v) - MantissaBits)}} : TRUE :
       v \in {n}} : TRUE

\* x * y and x + y of doubles x, y >= 0
DMul(x, y) == DRound(NMul(x.m, y.m), x.e + y.e)

DAligned(x, y) ==
  CHOOSE a \in {[x |-> NShl(x.m, x.e - e), y |-> NShl(y.m, y.e - e), e |-> e] :
                  e \in {IF x.e < y.e THEN x.e ELSE y.e}} : TRUE

DAdd(x, y) ==
  IF x.m = <<>> THEN y
  ELSE IF y.m = <<>> THEN x
  ELSE CHOOSE d \in {DRound(NAdd(a.x, a.y), a.e) : a \in {DAligned(x, y)}} : TRUE

\* x < y, x <= y
DLess(x, y) ==
  IF y.m = <<>> THEN FALSE
  ELSE IF x.m = <<>> THEN TRUE
  ELSE \E a \in {DAligned(x, y)} : NLess(a.x, a.y)

DLeq(x, y) == ~DLess(y, x)

\* abs(x - y)
DAbsDiff(x, y) ==
  IF x.m = <<>> THEN y
  ELSE IF y.m = <<>> THEN x
  ELSE CHOOSE d \in {IF NLess(a.x, a.y) THEN DRound(NSub(a.y, a.x), a.e)
                      ELSE DRound(NSub(a.x, a.y), a.e) :
                        a \in {DAligned(x, y)}} : TRUE

\* the first k limbs of rem / q after the point, most significant last in
\* the sequence, and the remainder left (0 <= rem < q < 2^18)
RECURSIVE QuotientLimbs(_, _, _)
QuotientLimbs(rem, q, k) ==
  IF k = 0 THEN [n |-> <<>>, rem |-> rem]
  ELSE CHOOSE f \in
         {[n |-> rest.n \o <<(rem * LimbBase) \div q>>, rem |-> rest.rem] :
            rest \in {QuotientLimbs((rem * LimbBase) % q, q, k - 1)}} : TRUE

\* p / q of Python ints 0 <= p, 0 < q < 2^18 (true division): the double
\* nearest to the quotient, from the quotient's first limbs and one more
\* bit that says whether a remainder is left.  A decimal literal n.dd is
\* the double nearest to ndd / 100.
DDiv(p, q) ==
  CHOOSE d \in
    {DRound(NAdd(NMulSmall(NNorm(frac.n \o NFromInt(p \div q)), 2),
                 IF frac.rem = 0 THEN <<>> ELSE <<1>>),
            0 - (k * LimbBits + 1)) :
       k \in {(MantissaBits + 2 + IntBitLen(q)) \div LimbBits + 1},
       frac \in {QuotientLimbs(p % q, q,
                               (MantissaBits + 2 + IntBitLen(q)) \div LimbBits + 1)}} :
      TRUE

\* the literal k/100 written as a decimal
DPct(k) == DDiv(k, 100)
DOne == DDiv(1, 1)

(***************************************************************************)
(* The candidate loop and the scorer on doubles: what Python computes for  *)
(* one contour of bounding box w x h, area `area` and hull area            *)
(* `hull_area` in an image of image_area pixels.                           *)
(***************************************************************************)
\* CARD_ASPECT_RATIO = 2.5 / 3.5, ASPECT_RATIO_TOLERANCE = 0.30,
\* MIN_CARD_AREA_RATIO = 0.01
CARD_ASPECT_RATIO_D == DDiv(25, 35)
ASPECT_RATIO_TOLERANCE_D == DPct(30)
MIN_CARD_AREA_RATIO_D == DPct(1)

\* the solidity score without the floor max(0.70, .)
SolidityScoreD_NoFloor(solidity) ==
  IF DLess(DPct(95), solidity) THEN DOne
  ELSE IF DLess(DPct(90), solidity) THEN DPct(95)
  ELSE IF DLess(DPct(85), solidity) THEN DPct(90)
  ELSE solidity

\* max(0.70, solidity) is 0.70 unless solidity > 0.70
SolidityScoreD(solidity) ==
  IF DLess(DPct(95), solidity) THEN DOne
  ELSE IF DLess(DPct(90), solidity) THEN DPct(95)
  ELSE IF DLess(DPct(85), solidity) THEN DPct(90)
  ELSE IF DLess(DPct(70), solidity) THEN solidity
  ELSE DPct(70)

\* confidence = 0.0; confidence += score * weight, four times;
\* return min(1.0, confidence)
CalculateConfidenceAdvancedD(area_ratio, aspect_ratio, num_vertices, solidity) ==
  LET aspect_diff == DAbsDiff(aspect_ratio, CARD_ASPECT_RATIO_D)
      aspect_score ==
        IF DLess(aspect_diff, DPct(8)) THEN DOne
        ELSE IF DLess(aspect_diff, DPct(15)) THEN DPct(95)
        ELSE IF DLess(aspect_diff, DPct(20)) THEN DPct(85)
        ELSE IF DLess(aspect_diff, ASPECT_RATIO_TOLERANCE_D) THEN DPct(75)
        ELSE DPct(50)
      area_score ==
        IF DLeq(DPct(40), area_ratio) /\ DLeq(area_ratio, DPct(70)) THEN DOne
        ELSE IF DLess(DPct(70), area_ratio) /\ DLeq(area_ratio, DPct(95)) THEN DPct(98)
        ELSE IF DLeq(DPct(30), area_ratio) /\ DLess(area_ratio, DPct(40)) THEN DPct(95)
        ELSE IF DLeq(DPct(15), area_ratio) /\ DLess(area_ratio, DPct(30)) THEN DPct(90)
        ELSE IF DLeq(DPct(5), area_ratio) /\ DLess(area_ratio, DPct(15)) THEN DPct(85)
        ELSE DPct(75)
      vertex_score ==
        CASE num_vertices = 4 -> DOne
          [] num_vertices = 5 -> DPct(95)
          [] num_vertices = 6 -> DPct(85)
          [] num_vertices = 7 -> DPct(75)
          [] OTHER -> DPct(65)
      c1 == DAdd(DZero, DMul(aspect_score, DPct(40)))
      c2 == DAdd(c1, DMul(area_score, DPct(30)))
      c3 == DAdd(c2, DMul(vertex_score, DPct(20)))
      c4 == DAdd(c3, DMul(SolidityScoreD(solidity), DPct(10)))
  IN IF DLess(c4, DOne) THEN c4 ELSE DOne

\* _detect_card_contour_advanced on an image whose contour list is <<c>>:
\* the ratios as the loop computes them, the three `continue` tests of the
\* loop (negated, in `detected`), the scorer's value for the ratios, and
\* the confidence returned (0.0 with no box when the contour is skipped)
DetectOneD(c, image_area) ==
  LET area_ratio == DDiv(c.area, image_area)
      aspect_ratio == IF Max(c.bbox[3], c.bbox[4]) > 0
                      THEN DDiv(Min(c.bbox[3], c.bbox[4]),
                                Max(c.bbox[3], c.bbox[4]))
                      ELSE DZero
      solidity == IF c.hull_area > 0 THEN DDiv(c.area, c.hull_area) ELSE DZero
      score == CalculateConfidenceAdvancedD(area_ratio, aspect_ratio,
                                            c.num_vertices, solidity)
      detected ==
        /\ ~(DLess(area_ratio, MIN_CARD_AREA_RATIO_D)
             \/ DLess(DPct(98), area_ratio))
        /\ ~DLess(ASPECT_RATIO_TOLERANCE_D,
                  DAbsDiff(aspect_ratio, CARD_ASPECT_RATIO_D))
        /\ 4 <= c.num_vertices /\ c.num_vertices <= 12
  IN [area_ratio |-> area_ratio, aspect_ratio |-> aspect_ratio,
      solidity |-> solidity, score |-> score, detected |-> detected,
      confidence |-> IF detected THEN score ELSE DZero]

(***************************************************************************)
(* Detection, on doubles, of images with one contour.                      *)
(***************************************************************************)
\* image sizes, bounding-box sizes and vertex counts that reach the least
\* and the greatest score and both sides of every filter
DoubleArgs ==
  LET images == {<<29, 70>>, <<50, 70>>, <<300, 300>>}
      box_sizes == {<<25, 35>>, <<20, 35>>, <<19, 35>>, <<28, 70>>,
                    <<29, 70>>, <<30, 70>>, <<70, 29>>}
      vertex_counts == {3, 4, 5, 6, 7, 8, 12, 13}
      contours(img_w, img_h) ==
        UNION {{[bbox |-> <<0, 0, b[1], b[2]>>, area |-> sh.area,
                 hull_area |-> sh.hull_area, num_vertices |-> v] :
                  sh \in ShapesOf(<<0, 0, b[1], b[2]>>), v \in vertex_counts} :
               b \in {bs \in box_sizes : bs[1] <= img_w /\ bs[2] <= img_h}}
  IN UNION {{[fn |-> "detect_double", img_w |-> s[1], img_h |-> s[2],
              contour |-> c] : c \in contours(s[1], s[2])} :
            s \in images}

InitDouble ==
  /\ PipelineIdle
  /\ call \in DoubleArgs
  /\ ret = None

ApplyDouble ==
  /\ call.fn = "detect_double"
  /\ ret = None
  /\ ret' = DetectOneD(call.contour, call.img_w * call.img_h)
  /\ UNCHANGED <<pipeVars, call>>

NextDouble == ApplyDouble

SpecDouble == InitDouble /\ [][NextDouble]_vars

(***************************************************************************)
(* Claims about the least confidence (checked under SpecDouble).           *)
(***************************************************************************)
\* the doubles 0.625 and 0.625 - 2^-53, the double next below it
D0625 == [m |-> <<0, 0, 0, 2048, 1>>, e |-> -53]
D0625Pred == [m |-> <<8191, 8191, 8191, 2047, 1>>, e |-> -53]

\* C30: the scorer never returns less than 0.625; so every result carries
\* either the confidence 0.0 of a failure or a confidence in [0.625, 1.0],
\* and none strictly between 0 and 0.625.
C30_ConfidenceFloor ==
  call.fn = "detect_double" /\ ret # None =>
    /\ DLeq(D0625, ret.score) /\ DLeq(ret.score, DOne)
    /\ ret.detected => ret.confidence = ret.score
    /\ ~ret.detected => ret.confidence = DZero

\* C30 amended: the same with the floor 0.625 - 2^-53, which is the value
\* of 0.5 * 0.40 + 0.75 * 0.30 + 0.65 * 0.20 + 0.70 * 0.10 in doubles.
C30_ConfidenceFloorAmended ==
  call.fn = "detect_double" /\ ret # None =>
    /\ DLeq(D0625Pred, ret.score) /\ DLeq(ret.score, DOne)
    /\ ret.detected => ret.confidence = ret.score
    /\ ~ret.detected => ret.confidence = DZero

C30_Witness ==
  /\ call.fn = "detect_double"
  /\ ret # None
  /\ ret.detected
  /\ ret.confidence = D0625Pred

=============================================================================
